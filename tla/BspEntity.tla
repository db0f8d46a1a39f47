----------------------------- MODULE BspEntity -----------------------------
(***************************************************************************)
(* The entity library (ios_bsp/libraries/bsp_entity/entity.c): how an      *)
(* (entity, instance, attribute) name is resolved to a method of a driver, *)
(* which checks stand before that method and what the library answers.     *)
(*                                                                         *)
(* Names are natural numbers ordered as strncmp orders the strings they    *)
(* stand for; EmptyName is the empty string.  A BSP_RVAL is the set of its *)
(* bits, so that BSP_RVAL_OK is {} and `|' is \cup.  A permission word is  *)
(* the set of its bits, each a <<class, right>> pair.  A pointer into a    *)
(* list or table is its index, and NULL is 0.                              *)
(*                                                                         *)
(* The C functions can run off a table or dereference NULL; they can also  *)
(* loop for ever.  An operator that models one returns how it ended        *)
(* ("done", "undefined", "hung"), what it may return, and the driver       *)
(* methods it called.                                                      *)
(***************************************************************************)
EXTENDS Naturals, Sequences, FiniteSets

CONSTANT HandlerRvals   \* what the drivers' methods may return

NULL      == 0
EmptyName == 0

(* Return values (bsp_entity_enum.h) *)
RvalFlags == {"UNKNOWN_ENTITY", "UNKNOWN_ATTRIBUTE", "INVALID_INSTANCE",
              "CFG_CORRUPTED", "DEVICE_ERROR", "DEVICE_BUSY", "OS_ERROR",
              "SPECIFIED_SIZE_INVALID", "HEAP_ERROR", "ENTITY_LIST_FULL",
              "UNSUPPORTED_METHOD", "UNKNOWN_HARDWARE_VERSION",
              "QUERY_UNAVAILABLE", "UNKNOWN_DEVICE", "INVALID_PARAMETER",
              "DEVICE_NOT_FOUND", "REQUEST_DENIED", "UNSUPPORTED_PARAMETER",
              "BOARD_CONFIG_INVALID"}
BSP_RVAL    == SUBSET RvalFlags
BSP_RVAL_OK == {}

ASSUME HandlerRvalsAssumption == HandlerRvals \subseteq BSP_RVAL

(* Permissions and credentials: four client classes with four rights each, *)
(* and the INTERNAL bit.                                                   *)
Classes     == {"PPC_SUPV", "PPC_USER", "IOS_SUPV", "IOS_USER"}
Rights      == {"READ", "WRITE", "INIT", "SHUTDOWN"}
INTERNAL    == <<"INTERNAL", "ANY">>
Permissions == SUBSET ((Classes \X Rights) \cup {INTERNAL})

Methods == {"QUERY", "READ", "WRITE", "INIT", "SHUTDOWN"}
Options == {"INIT_GLOBAL", "SHUTDOWN_GLOBAL", "QUERY_DATA_DIRECT",
            "QUERY_DATA_INDIRECT"}

(* struct BSP_ATTRIBUTE: methods is the set of its non-NULL pointers. *)
Attribute == [pName : Nat \ {EmptyName}, options : SUBSET Options,
              permissions : Permissions, dataSize : Nat,
              methods : SUBSET Methods]

(* An attribute table ends at an attribute whose pName is NULL; some of the *)
(* tables in entities/ lack it (terminated = FALSE).                        *)
AttributeTable == [attrs : Seq(Attribute), terminated : BOOLEAN]

(* struct BSP_ENTITY *)
Entity == [pName : Nat, instanceCount : Nat, flat : BOOLEAN,
           pAttributes : Seq(AttributeTable)]

(* One table for all instances of a flat entity, one per instance otherwise. *)
WellFormed(e) ==
    Len(e.pAttributes) >= IF e.flat THEN 1 ELSE e.instanceCount

----------------------------------------------------------------------------
(* bspFindEntity.  The scan stops at the first entity that does not come   *)
(* before the name; past the end it returns OK and leaves *ppE NULL.       *)
FindEntityReversed(list, entityName) ==   \* mutant: exit on ret > 0
    LET stops == {i \in DOMAIN list : entityName >= list[i].pName}
        first == CHOOSE i \in stops : \A j \in stops : i <= j
    IN  IF stops # {} /\ list[first].pName = entityName
          THEN [rval |-> BSP_RVAL_OK, pE |-> first]
          ELSE [rval |-> {"UNKNOWN_ENTITY"}, pE |-> NULL]

FindEntityShort(list, entityName) ==   \* mutant: i < bspEntityCount - 1
    LET stops == {i \in DOMAIN list \ {Len(list)} : entityName <= list[i].pName}
        first == CHOOSE i \in stops : \A j \in stops : i <= j
    IN  IF list = << >>
          THEN [rval |-> {"UNKNOWN_ENTITY"}, pE |-> NULL]
        ELSE IF stops = {}
          THEN [rval |-> BSP_RVAL_OK, pE |-> NULL]
        ELSE IF list[first].pName = entityName
          THEN [rval |-> BSP_RVAL_OK, pE |-> first]
          ELSE [rval |-> {"UNKNOWN_ENTITY"}, pE |-> NULL]

FindEntity(list, entityName) ==
    LET stops == {i \in DOMAIN list : entityName <= list[i].pName}
        first == CHOOSE i \in stops : \A j \in stops : i <= j
    IN  IF list = << >>
          THEN [rval |-> {"UNKNOWN_ENTITY"}, pE |-> NULL]
        ELSE IF stops = {}
          THEN [rval |-> BSP_RVAL_OK, pE |-> NULL]
        ELSE IF list[first].pName = entityName
          THEN [rval |-> BSP_RVAL_OK, pE |-> first]
          ELSE [rval |-> {"UNKNOWN_ENTITY"}, pE |-> NULL]

TableOf(e, instance) ==
    e.pAttributes[IF e.flat THEN 1 ELSE instance + 1]

(* The bits a command looks at: QUERY and READ share the READ bits. *)
RightOf(command) == IF command = "QUERY" THEN "READ" ELSE command
CommandMaskAnyRight(command) ==   \* mutant: the class is enough
    {INTERNAL} \cup (Classes \X Rights)
CommandMask(command) == {INTERNAL} \cup (Classes \X {RightOf(command)})

(* The permission check at the end of bspFindAttribute. *)
PermissionCheck(attr, clientCredentials, command) ==
    LET permissions == IF INTERNAL \in attr.permissions
                         THEN {INTERNAL} ELSE attr.permissions
    IN  \/ INTERNAL \in clientCredentials
        \/ clientCredentials \cap CommandMask(command) \cap permissions # {}

(* bspFindAttribute.  For an empty attribute name it succeeds with *ppA    *)
(* NULL, before the permission check.                                      *)
FindAttribute(list, args, clientCredentials, command) ==
    LET fe   == FindEntity(list, args.entityName)
        e    == list[fe.pE]
        t    == TableOf(e, args.instance)
        hits == {i \in DOMAIN t.attrs : t.attrs[i].pName = args.attributeName}
        a    == CHOOSE i \in hits : \A j \in hits : i <= j
        Done(r, pE, pA) == [status |-> "done", rval |-> r, pE |-> pE, pA |-> pA]
        Undefined       == [status |-> "undefined", rval |-> BSP_RVAL_OK,
                            pE |-> NULL, pA |-> NULL]
    IN  IF fe.rval # BSP_RVAL_OK THEN Done(fe.rval, NULL, NULL)
        ELSE IF fe.pE = NULL THEN Undefined
        ELSE IF args.instance >= e.instanceCount
          THEN Done({"INVALID_INSTANCE"}, fe.pE, NULL)
        ELSE IF args.attributeName = EmptyName
          THEN Done(BSP_RVAL_OK, fe.pE, NULL)
        ELSE IF hits = {}
          THEN IF t.terminated THEN Done({"UNKNOWN_ATTRIBUTE"}, fe.pE, NULL)
                               ELSE Undefined
        ELSE IF PermissionCheck(t.attrs[a], clientCredentials, command)
          THEN Done(BSP_RVAL_OK, fe.pE, a)
          ELSE Done({"REQUEST_DENIED"}, fe.pE, a)

----------------------------------------------------------------------------
(* How a bspMethod* function ends: what it may return, and the driver      *)
(* methods it called.                                                      *)
Returns(r)       == [status |-> "done", rvals |-> {r}, calls |-> {}]
DerefsNull       == [status |-> "undefined", rvals |-> {}, calls |-> {}]
Calls(rvals, cs) == [status |-> "done", rvals |-> rvals, calls |-> cs]

(* A call of a driver's method: of attribute pA of entity pE, through an   *)
(* attribute name or by the initialisation of a whole entity.              *)
Call(method, pE, instance, pA, named) ==
    [method |-> method, pE |-> pE, instance |-> instance, pA |-> pA,
     named |-> named]

(* The part all five functions share: look the attribute up, return its    *)
(* error, dereference pA (NULL after an empty name), then go on with Body. *)
WithAttribute(list, args, creds, command, Body(_, _)) ==
    LET fa == FindAttribute(list, args, creds, command)
    IN  IF fa.status = "undefined" THEN DerefsNull
        ELSE IF fa.rval # BSP_RVAL_OK THEN Returns(fa.rval)
        ELSE IF fa.pA = NULL THEN DerefsNull
        ELSE Body(TableOf(list[fa.pE], args.instance).attrs[fa.pA],
                  Call(command, fa.pE, args.instance, fa.pA, TRUE))

(* bspMethodRead; bspMethodWrite differs in the command and the pointer.  *)
(* bspReadInternal and bspWriteInternal pass the INTERNAL credential.     *)
MethodReadWrite(list, args, creds, command) ==
    LET Body(attr, call) ==
          IF args.size # attr.dataSize
            THEN Returns({"SPECIFIED_SIZE_INVALID"})
          ELSE IF command \notin attr.methods
            THEN Returns({"UNSUPPORTED_METHOD"})
          ELSE Calls(HandlerRvals, {call})
    IN  WithAttribute(list, args, creds, command, Body)

MethodRead(list, args, creds)  == MethodReadWrite(list, args, creds, "READ")
MethodWrite(list, args, creds) == MethodReadWrite(list, args, creds, "WRITE")

(* bspMethodQuery: a query method, else data held in or behind the        *)
(* attribute.  Direct data has at most four bytes.                        *)
MethodQuery(list, args, creds) ==
    LET Body(attr, call) ==
          IF args.size # attr.dataSize
            THEN Returns({"SPECIFIED_SIZE_INVALID"})
          ELSE IF "QUERY" \in attr.methods
            THEN Calls(HandlerRvals, {call})
          ELSE IF "QUERY_DATA_DIRECT" \in attr.options
            THEN Returns(IF args.size > 4 THEN {"CFG_CORRUPTED"}
                                          ELSE BSP_RVAL_OK)
          ELSE IF "QUERY_DATA_INDIRECT" \in attr.options
            THEN Returns(BSP_RVAL_OK)
          ELSE Returns({"QUERY_UNAVAILABLE"})
    IN  WithAttribute(list, args, creds, "QUERY", Body)

(* bspMethodShutdown *)
MethodShutdown(list, args, creds) ==
    LET Body(attr, call) ==
          IF "SHUTDOWN" \notin attr.methods
            THEN Returns({"UNSUPPORTED_METHOD"})
            ELSE Calls(HandlerRvals, {call})
    IN  WithAttribute(list, args, creds, "SHUTDOWN", Body)

(* The initialisation of every attribute of an instance: `continue' does   *)
(* not advance pA, so the loop stays for ever at the first attribute that  *)
(* has no initMethod or no INIT_GLOBAL; a table without its NULL           *)
(* terminator is overrun.                                                  *)
InitGlobal(table, pE, instance) ==
    LET attrs     == table.attrs
        Skipped(i) == \/ "INIT" \notin attrs[i].methods
                      \/ "INIT_GLOBAL" \notin attrs[i].options
        reached   == {i \in DOMAIN attrs : \A j \in 1..i : ~Skipped(j)}
        calls     == {Call("INIT", pE, instance, i, FALSE) : i \in reached}
    IN  IF reached # DOMAIN attrs
          THEN [status |-> "hung", rvals |-> {}, calls |-> calls]
        ELSE IF ~table.terminated
          THEN [status |-> "undefined", rvals |-> {}, calls |-> calls]
        ELSE IF attrs = << >> THEN Returns(BSP_RVAL_OK)
        ELSE Calls({UNION {rets[i] : i \in DOMAIN attrs} :
                       rets \in [DOMAIN attrs -> HandlerRvals]}, calls)

(* bspMethodInit *)
MethodInit(list, args, creds) ==
    LET Body(attr, call) ==
          IF "INIT" \notin attr.methods
            THEN Returns({"UNSUPPORTED_METHOD"})
            ELSE Calls(HandlerRvals, {call})
        fa == FindAttribute(list, args, creds, "INIT")
    IN  IF /\ fa.status = "done"
           /\ fa.rval = BSP_RVAL_OK
           /\ args.attributeName = EmptyName
          THEN InitGlobal(TableOf(list[fa.pE], args.instance), fa.pE,
                          args.instance)
          ELSE WithAttribute(list, args, creds, "INIT", Body)

(* bspGetEntityVersion: memcpy from pE->version, pE NULL past the end. *)
GetEntityVersion(list, entityName) ==
    LET fe == FindEntity(list, entityName)
    IN  IF fe.rval # BSP_RVAL_OK THEN Returns(fe.rval)
        ELSE IF fe.pE = NULL THEN DerefsNull
        ELSE Returns(BSP_RVAL_OK)

----------------------------------------------------------------------------
(* What the permission bits mean: INTERNAL clients may do everything;      *)
(* INTERNAL attributes are for nobody else; otherwise one of the client's  *)
(* classes needs the right the method stands for.                          *)
MayCall(creds, attr, method) ==
    LET right == IF method \in {"QUERY", "READ"} THEN "READ" ELSE method
    IN  \/ INTERNAL \in creds
        \/ /\ INTERNAL \notin attr.permissions
           /\ \E class \in Classes :
                 <<class, right>> \in creds \cap attr.permissions
============================================================================
