---------------------------- MODULE MCBspServer ----------------------------
(* Small instances of BspServer: three entities that between them have the *)
(* shapes of the tables under ios_bsp/entities, registered in an order     *)
(* that is not their order in the list.                                    *)
EXTENDS BspServer, TLC

Attr(name, options, permissions, size, methods) ==
    [pName |-> name, options |-> options, permissions |-> permissions,
     dataSize |-> size, methods |-> methods]
SupvAll  == {"IOS_SUPV"} \X Rights
UserRead == {<<"IOS_USER", "READ">>}

(* One instance, several methods, one INTERNAL attribute (like GPIO). *)
Pins == [pName |-> 3, instanceCount |-> 1, flat |-> FALSE, pAttributes |->
  << [attrs |-> << Attr(1, {}, SupvAll \cup UserRead, 4, Methods),
                   Attr(2, {}, SupvAll \cup {INTERNAL}, 4, {"READ", "WRITE"}) >>,
      terminated |-> TRUE] >>]

(* Two instances with tables of their own; the first is all INIT_GLOBAL,   *)
(* the second is not.                                                      *)
Unit == [pName |-> 5, instanceCount |-> 2, flat |-> FALSE, pAttributes |->
  << [attrs |-> << Attr(1, {"INIT_GLOBAL"}, SupvAll, 4, {"INIT", "SHUTDOWN"}) >>,
      terminated |-> TRUE],
     [attrs |-> << Attr(1, {"INIT_GLOBAL"}, SupvAll, 4, {"INIT"}),
                   Attr(2, {"QUERY_DATA_DIRECT"}, UserRead, 5, {}),
                   Attr(4, {"QUERY_DATA_INDIRECT"}, UserRead, 2, {}) >>,
      terminated |-> TRUE] >>]

(* Flat instances and a table without its terminator (like EE). *)
Flat == [pName |-> 4, instanceCount |-> 2, flat |-> TRUE, pAttributes |->
  << [attrs |-> << Attr(1, {"INIT_GLOBAL"}, SupvAll, 2, {"READ", "INIT"}) >>,
      terminated |-> FALSE] >>]

MCInstalls == <<Unit, Pins, Flat>>
MCHandlerRvals == {BSP_RVAL_OK, {"DEVICE_ERROR"}}

A(e, i, a, s) == [entityName |-> e, instance |-> i, attributeName |-> a,
                  size |-> s]
MCArgs == {A(3, 0, 1, 4), A(3, 0, 2, 4), A(3, 0, 7, 4), A(3, 1, 1, 2),
           A(3, 0, 0, 4),
           A(5, 0, 0, 4), A(5, 0, 1, 4), A(5, 1, 0, 2), A(5, 1, 2, 5),
           A(5, 1, 4, 2),
           A(4, 1, 1, 2), A(4, 1, 0, 4), A(4, 0, 7, 4), A(4, 2, 1, 4),
           A(1, 0, 1, 4), A(9, 0, 1, 4)}
NoArgs == NoMessage.args

Body(command, fd, arg0, args, perms) ==
    [command |-> command, clientFD |-> fd, arg0 |-> arg0, args |-> args,
     arg4 |-> perms]
MCPerms == {{}, UserRead \cup {<<"IOS_SUPV", "SHUTDOWN">>}, SupvAll, {INTERNAL}}

MCMessages ==
    {Body("OPEN", 0, 0, NoArgs, perms) : perms \in MCPerms}
    \cup {Body("CLOSE", fd, 0, NoArgs, {}) : fd \in -1 .. NumFds}
    \cup {Body("IOCTL", fd, arg0, args, {}) :
            fd \in -1 .. 1, arg0 \in 0..9, args \in MCArgs}
    \cup {Body("IOCTL", NumFds, 4, A(3, 0, 1, 4), {}), NoMessage}

(* Fewer bodies for the liveness run: one of each kind. *)
LiveMessages ==
    {Body("OPEN", 0, 0, NoArgs, SupvAll), NoMessage}
    \cup {Body("CLOSE", fd, 0, NoArgs, {}) : fd \in -1 .. NumFds}
    \cup {Body("IOCTL", 0, arg0, args, {}) :
            arg0 \in {1, 5, 7, 9},
            args \in {A(3, 0, 1, 4), A(5, 0, 1, 2), A(5, 1, 0, 4), A(9, 0, 1, 4)}}

Symmetry == Permutations(Clients)
============================================================================
