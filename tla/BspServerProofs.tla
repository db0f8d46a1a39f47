-------------------------- MODULE BspServerProofs --------------------------
(***************************************************************************)
(* The safety properties of /dev/bsp, for every set of clients and         *)
(* messages, every list of entities and every size of the two tables; and  *)
(* first the facts about the entity library that they rest on.             *)
(***************************************************************************)
EXTENDS BspServer, WellFoundedInduction, TLAPS

----------------------------------------------------------------------------
(* The entity library, for every list, request and credential.             *)

(* What every bspMethod* function guarantees: it returns a BSP_RVAL, and   *)
(* it calls a method of a named attribute only for credentials that may.   *)
GoodOutcome(out, list, creds) ==
    /\ out.rvals \subseteq BSP_RVAL
    /\ \A c \in out.calls :
         c.named => MayCall(creds, TableOf(list[c.pE], c.instance).attrs[c.pA],
                            c.method)

(* The masks of bspFindAttribute grant what the permission bits mean. *)
LEMMA PermissionCheckSound ==
    ASSUME NEW attr, NEW creds, NEW command \in Methods,
           PermissionCheck(attr, creds, command)
    PROVE  MayCall(creds, attr, command)
<1>1. CASE INTERNAL \in creds
  BY <1>1 DEF MayCall
<1>2. CASE INTERNAL \notin creds
  <2> DEFINE perms == IF INTERNAL \in attr.permissions
                        THEN {INTERNAL} ELSE attr.permissions
  <2>1. PICK x : x \in creds /\ x \in CommandMask(command) /\ x \in perms
    BY <1>2 DEF PermissionCheck
  <2>2. x \in Classes \X {RightOf(command)}
    BY <1>2, <2>1 DEF CommandMask
  <2>3. INTERNAL \notin attr.permissions /\ x \in attr.permissions
    BY <1>2, <2>1
  <2>4. PICK class \in Classes : x = <<class, RightOf(command)>>
    BY <2>2
  <2> QED
    BY <2>1, <2>3, <2>4 DEF MayCall, RightOf, Methods
<1> QED BY <1>1, <1>2

(* A successful look-up of a named attribute passed the check. *)
LEMMA FoundIsPermitted ==
    ASSUME NEW list, NEW args, NEW creds, NEW command \in Methods,
           NEW fa, fa = FindAttribute(list, args, creds, command),
           fa.status = "done", fa.rval = BSP_RVAL_OK, fa.pA # NULL
    PROVE  MayCall(creds, TableOf(list[fa.pE], args.instance).attrs[fa.pA],
                   command)
<1>1. PermissionCheck(TableOf(list[fa.pE], args.instance).attrs[fa.pA], creds,
                      command)
  BY DEF FindAttribute, BSP_RVAL_OK, NULL
<1> QED BY <1>1, PermissionCheckSound

(* bspFindAttribute returns a BSP_RVAL, unless it dereferences NULL. *)
LEMMA FindAttributeType ==
    ASSUME NEW list, NEW args, NEW creds, NEW command,
           NEW fa, fa = FindAttribute(list, args, creds, command)
    PROVE  fa.rval \in BSP_RVAL /\ fa.status \in {"done", "undefined"}
<1>1. FindEntity(list, args.entityName).rval \in BSP_RVAL
  BY DEF FindEntity, BSP_RVAL, RvalFlags, BSP_RVAL_OK
<1>2. /\ BSP_RVAL_OK \in BSP_RVAL
      /\ {"INVALID_INSTANCE"} \in BSP_RVAL
      /\ {"UNKNOWN_ATTRIBUTE"} \in BSP_RVAL
      /\ {"REQUEST_DENIED"} \in BSP_RVAL
  BY DEF BSP_RVAL, RvalFlags, BSP_RVAL_OK
<1> QED BY <1>1, <1>2 DEF FindAttribute

(* A function that calls at most the method of the attribute it found, and *)
(* only when bspFindAttribute succeeded, has a good outcome.               *)
LEMMA FoundCallGood ==
    ASSUME NEW list, NEW args, NEW creds, NEW command \in Methods, NEW out,
           NEW fa, fa = FindAttribute(list, args, creds, command),
           out.rvals \subseteq BSP_RVAL,
           \/ out.calls = {}
           \/ /\ out.calls = {Call(command, fa.pE, args.instance, fa.pA, TRUE)}
              /\ fa.status # "undefined" /\ fa.rval = BSP_RVAL_OK
              /\ fa.pA # NULL
    PROVE  GoodOutcome(out, list, creds)
<1> SUFFICES ASSUME NEW c \in out.calls
             PROVE  MayCall(creds, TableOf(list[c.pE], c.instance).attrs[c.pA],
                            c.method)
  BY DEF GoodOutcome
<1>1. /\ c.pE = fa.pE /\ c.instance = args.instance /\ c.pA = fa.pA
      /\ c.method = command
  BY DEF Call
<1>2. fa.status = "done" /\ fa.rval = BSP_RVAL_OK /\ fa.pA # NULL
  BY FindAttributeType
<1> QED BY <1>1, <1>2, FoundIsPermitted

(* The values the library itself returns are BSP_RVALs. *)
LEMMA LibraryRvals ==
    /\ BSP_RVAL_OK \in BSP_RVAL
    /\ {"SPECIFIED_SIZE_INVALID"} \in BSP_RVAL
    /\ {"UNSUPPORTED_METHOD"} \in BSP_RVAL
    /\ {"CFG_CORRUPTED"} \in BSP_RVAL
    /\ {"QUERY_UNAVAILABLE"} \in BSP_RVAL
    /\ {"BOARD_CONFIG_INVALID"} \in BSP_RVAL
    /\ {"UNKNOWN_ENTITY"} \in BSP_RVAL
    /\ {"ENTITY_LIST_FULL"} \in BSP_RVAL
    /\ {"UNKNOWN_HARDWARE_VERSION"} \in BSP_RVAL
BY DEF BSP_RVAL, RvalFlags, BSP_RVAL_OK

(* bspMethodRead and bspMethodWrite. *)
LEMMA ReadWriteGood ==
    ASSUME NEW list, NEW args, NEW creds, NEW command \in {"READ", "WRITE"}
    PROVE  GoodOutcome(MethodReadWrite(list, args, creds, command), list, creds)
<1> DEFINE fa  == FindAttribute(list, args, creds, command)
           out == MethodReadWrite(list, args, creds, command)
<1>1. fa.rval \in BSP_RVAL
  BY FindAttributeType
<1>2. out.rvals \subseteq BSP_RVAL
  BY <1>1, LibraryRvals, HandlerRvalsAssumption
     DEF MethodReadWrite, WithAttribute, Returns, DerefsNull, Calls
<1>3. \/ out.calls = {}
      \/ /\ out.calls = {Call(command, fa.pE, args.instance, fa.pA, TRUE)}
         /\ fa.status # "undefined" /\ fa.rval = BSP_RVAL_OK
         /\ fa.pA # NULL
  BY DEF MethodReadWrite, WithAttribute, Returns, DerefsNull, Calls
<1>4. command \in Methods
  BY DEF Methods
<1> QED BY <1>2, <1>3, <1>4, FoundCallGood

(* bspMethodQuery. *)
LEMMA QueryGood ==
    ASSUME NEW list, NEW args, NEW creds
    PROVE  GoodOutcome(MethodQuery(list, args, creds), list, creds)
<1> DEFINE fa  == FindAttribute(list, args, creds, "QUERY")
           out == MethodQuery(list, args, creds)
<1>1. fa.rval \in BSP_RVAL
  BY FindAttributeType
<1>2. out.rvals \subseteq BSP_RVAL
  BY <1>1, LibraryRvals, HandlerRvalsAssumption
     DEF MethodQuery, WithAttribute, Returns, DerefsNull, Calls
<1>3. \/ out.calls = {}
      \/ /\ out.calls = {Call("QUERY", fa.pE, args.instance, fa.pA, TRUE)}
         /\ fa.status # "undefined" /\ fa.rval = BSP_RVAL_OK
         /\ fa.pA # NULL
  BY DEF MethodQuery, WithAttribute, Returns, DerefsNull, Calls
<1>4. "QUERY" \in Methods
  BY DEF Methods
<1> QED BY <1>2, <1>3, <1>4, FoundCallGood

(* bspMethodShutdown. *)
LEMMA ShutdownGood ==
    ASSUME NEW list, NEW args, NEW creds
    PROVE  GoodOutcome(MethodShutdown(list, args, creds), list, creds)
<1> DEFINE fa  == FindAttribute(list, args, creds, "SHUTDOWN")
           out == MethodShutdown(list, args, creds)
<1>1. fa.rval \in BSP_RVAL
  BY FindAttributeType
<1>2. out.rvals \subseteq BSP_RVAL
  BY <1>1, LibraryRvals, HandlerRvalsAssumption
     DEF MethodShutdown, WithAttribute, Returns, DerefsNull, Calls
<1>3. \/ out.calls = {}
      \/ /\ out.calls = {Call("SHUTDOWN", fa.pE, args.instance, fa.pA, TRUE)}
         /\ fa.status # "undefined" /\ fa.rval = BSP_RVAL_OK
         /\ fa.pA # NULL
  BY DEF MethodShutdown, WithAttribute, Returns, DerefsNull, Calls
<1>4. "SHUTDOWN" \in Methods
  BY DEF Methods
<1> QED BY <1>2, <1>3, <1>4, FoundCallGood

(* The initialisation of a whole instance calls no method by name. *)
LEMMA InitGlobalGood ==
    ASSUME NEW list, NEW creds, NEW table, NEW pE, NEW instance
    PROVE  GoodOutcome(InitGlobal(table, pE, instance), list, creds)
<1> DEFINE out == InitGlobal(table, pE, instance)
           D   == DOMAIN table.attrs
<1>1. \A c \in out.calls : ~c.named
  BY DEF InitGlobal, Call, Returns, Calls
<1>2. ASSUME NEW r \in out.rvals
      PROVE  r \in BSP_RVAL
  <2>1. r = BSP_RVAL_OK \/ \E rets \in [D -> HandlerRvals] :
                             r = UNION {rets[i] : i \in D}
    BY DEF InitGlobal, Returns, Calls
  <2>2. ASSUME NEW rets \in [D -> HandlerRvals],
               r = UNION {rets[i] : i \in D}
        PROVE  r \in BSP_RVAL
    <3>1. \A i \in D : rets[i] \subseteq RvalFlags
      BY HandlerRvalsAssumption DEF BSP_RVAL
    <3> QED BY <2>2, <3>1 DEF BSP_RVAL
  <2> QED BY <2>1, <2>2, LibraryRvals
<1> QED BY <1>1, <1>2 DEF GoodOutcome

(* bspMethodInit. *)
LEMMA InitGood ==
    ASSUME NEW list, NEW args, NEW creds
    PROVE  GoodOutcome(MethodInit(list, args, creds), list, creds)
<1> DEFINE fa     == FindAttribute(list, args, creds, "INIT")
           out    == MethodInit(list, args, creds)
           Global == /\ fa.status = "done" /\ fa.rval = BSP_RVAL_OK
                     /\ args.attributeName = EmptyName
<1>1. CASE Global
  <2>1. out = InitGlobal(TableOf(list[fa.pE], args.instance), fa.pE,
                         args.instance)
    BY <1>1 DEF MethodInit
  <2> QED BY <2>1, InitGlobalGood
<1>2. CASE ~Global
  <2>1. fa.rval \in BSP_RVAL
    BY FindAttributeType
  <2>2. out.rvals \subseteq BSP_RVAL
    BY <1>2, <2>1, LibraryRvals, HandlerRvalsAssumption
       DEF MethodInit, WithAttribute, Returns, DerefsNull, Calls
  <2>3. \/ out.calls = {}
        \/ /\ out.calls = {Call("INIT", fa.pE, args.instance, fa.pA, TRUE)}
           /\ fa.status # "undefined" /\ fa.rval = BSP_RVAL_OK
           /\ fa.pA # NULL
    BY <1>2 DEF MethodInit, WithAttribute, Returns, DerefsNull, Calls
  <2>4. "INIT" \in Methods
    BY DEF Methods
  <2> QED BY <2>2, <2>3, <2>4, FoundCallGood
<1> QED BY <1>1, <1>2

(* bspGetEntityVersion returns a BSP_RVAL and calls no driver. *)
LEMMA VersionGood ==
    ASSUME NEW list, NEW name
    PROVE  /\ GetEntityVersion(list, name).rvals \subseteq BSP_RVAL
           /\ GetEntityVersion(list, name).calls = {}
<1>1. FindEntity(list, name).rval \in BSP_RVAL
  BY LibraryRvals DEF FindEntity
<1> QED BY <1>1, LibraryRvals DEF GetEntityVersion, Returns, DerefsNull

----------------------------------------------------------------------------
(* A list as bspFindEntity takes it to be: strictly ordered by name. *)
SortedList(list) ==
    \A i, j \in DOMAIN list : i < j => list[i].pName < list[j].pName

(* Every set of indices has a least one. *)
LEMMA LeastNatural ==
    ASSUME NEW S, S \subseteq Nat, S # {}
    PROVE  \E x \in S : \A y \in S : x <= y
<1> DEFINE R == OpToRel(<, Nat)
<1>1. IsWellFoundedOn(R, Nat)
  BY NatLessThanWellFounded
<1>2. PICK x \in S : \A y \in S : ~(<<y, x>> \in R)
  <2> HIDE DEF R
  <2> QED BY <1>1, WFMin
<1>3. \A y \in S : ~(y < x)
  BY <1>2 DEF OpToRel
<1> QED BY <1>3

(* The indices of a list of entities and their names are natural numbers. *)
LEMMA ListOfEntities ==
    ASSUME NEW list \in Seq(Entity)
    PROVE  /\ DOMAIN list \subseteq Nat
           /\ \A j \in DOMAIN list : list[j].pName \in Nat
<1>1. DOMAIN list = 1 .. Len(list) /\ Len(list) \in Nat
  OBVIOUS
<1>2. \A j \in DOMAIN list : list[j] \in Entity
  OBVIOUS
<1>3. \A j \in DOMAIN list : list[j].pName \in Nat
  BY <1>2 DEF Entity
<1> QED BY <1>1, <1>3

(* In a sorted list bspFindEntity finds every entity: its early exit hides *)
(* none.                                                                   *)
LEMMA FindEntityComplete ==
    ASSUME NEW list \in Seq(Entity), SortedList(list), NEW i \in DOMAIN list
    PROVE  FindEntity(list, list[i].pName) = [rval |-> BSP_RVAL_OK, pE |-> i]
<1> DEFINE stops == {j \in DOMAIN list : list[i].pName <= list[j].pName}
           Least(k) == \A j \in stops : k <= j
<1>1. DOMAIN list \subseteq Nat /\ \A j \in DOMAIN list : list[j].pName \in Nat
  BY ListOfEntities
<1>2. i \in stops
  BY <1>1
<1>3. \A j \in stops : i <= j
  BY <1>1 DEF SortedList
<1>4. (CHOOSE k \in stops : Least(k)) = i
  <2>1. \A k \in stops : Least(k) => k = i
    BY <1>1, <1>2, <1>3
  <2> QED BY <1>2, <1>3, <2>1
<1>5. list # << >>
  OBVIOUS
<1> QED BY <1>2, <1>4, <1>5 DEF FindEntity

(* A name that no entity has is not found, and is reported unless it sorts *)
(* after the whole list.                                                   *)
LEMMA FindEntityMiss ==
    ASSUME NEW list \in Seq(Entity), NEW name \in Nat,
           \A i \in DOMAIN list : list[i].pName # name
    PROVE  LET fe == FindEntity(list, name)
           IN  /\ fe.pE = NULL
               /\ fe.rval = BSP_RVAL_OK <=>
                    /\ list # << >>
                    /\ \A i \in DOMAIN list : list[i].pName < name
<1> DEFINE stops == {j \in DOMAIN list : name <= list[j].pName}
           Least(k) == \A j \in stops : k <= j
           first == CHOOSE k \in stops : Least(k)
<1>1. DOMAIN list \subseteq Nat /\ \A j \in DOMAIN list : list[j].pName \in Nat
  BY ListOfEntities
<1>2. stops # {} => first \in stops
  <2>1. stops \subseteq Nat
    BY <1>1
  <2>2. stops # {} => \E k \in stops : Least(k)
    BY <2>1, LeastNatural
  <2> QED BY <2>2
<1>3. stops # {} => list[first].pName # name
  BY <1>2
<1>4. stops = {} <=> \A i \in DOMAIN list : list[i].pName < name
  BY <1>1
<1> HIDE DEF first
<1> QED BY <1>3, <1>4 DEF FindEntity, BSP_RVAL_OK, first

----------------------------------------------------------------------------
(* The name of a registered entity e was found. *)
Found(list, name, e) ==
    LET fe == FindEntity(list, name)
    IN  fe.rval = BSP_RVAL_OK /\ fe.pE # NULL /\ list[fe.pE] = e

(* bspFindAttribute ends, with an error or an attribute, for an attribute  *)
(* name that is not empty, when the tables of the entity are terminated.   *)
LEMMA SoundLookup ==
    ASSUME NEW list, NEW args, NEW creds, NEW command, NEW e \in Entity,
           WellFormed(e), args.instance \in Nat,
           Found(list, args.entityName, e), args.attributeName # EmptyName,
           \A j \in DOMAIN e.pAttributes : e.pAttributes[j].terminated,
           NEW fa, fa = FindAttribute(list, args, creds, command)
    PROVE  fa.status = "done" /\ (fa.rval = BSP_RVAL_OK => fa.pA # NULL)
<1> DEFINE fe   == FindEntity(list, args.entityName)
           t    == TableOf(e, args.instance)
           hits == {i \in DOMAIN t.attrs : t.attrs[i].pName = args.attributeName}
           a    == CHOOSE i \in hits : \A j \in hits : i <= j
<1>1. fe.rval = BSP_RVAL_OK /\ fe.pE # NULL /\ list[fe.pE] = e
  BY DEF Found
<1>2. {"INVALID_INSTANCE"} # BSP_RVAL_OK /\ {"UNKNOWN_ATTRIBUTE"} # BSP_RVAL_OK
      /\ {"REQUEST_DENIED"} # BSP_RVAL_OK
  BY DEF BSP_RVAL_OK
<1>3. CASE args.instance >= e.instanceCount
  BY <1>1, <1>2, <1>3 DEF FindAttribute
<1>4. CASE ~(args.instance >= e.instanceCount)
  <2>1. t \in AttributeTable /\ t.terminated
    <3>1. /\ e.pAttributes \in Seq(AttributeTable) /\ e.instanceCount \in Nat
          /\ e.flat \in BOOLEAN
      BY DEF Entity
    <3>2. (IF e.flat THEN 1 ELSE args.instance + 1) \in DOMAIN e.pAttributes
      BY <1>4, <3>1 DEF WellFormed
    <3> QED BY <3>1, <3>2 DEF TableOf
  <2>2. \A i \in DOMAIN t.attrs : i \in Nat /\ i # 0
    BY <2>1 DEF AttributeTable
  <2>3. hits # {} => a \in hits
    <3>1. hits \subseteq Nat
      BY <2>2
    <3> HIDE DEF hits
    <3> QED BY <3>1, LeastNatural
  <2>4. hits # {} => a # NULL
    BY <2>2, <2>3 DEF NULL
  <2>5. fa = IF hits = {}
               THEN [status |-> "done", rval |-> {"UNKNOWN_ATTRIBUTE"},
                     pE |-> fe.pE, pA |-> NULL]
             ELSE IF PermissionCheck(t.attrs[a], creds, command)
               THEN [status |-> "done", rval |-> BSP_RVAL_OK,
                     pE |-> fe.pE, pA |-> a]
               ELSE [status |-> "done", rval |-> {"REQUEST_DENIED"},
                     pE |-> fe.pE, pA |-> a]
    BY <1>1, <1>4, <2>1, Zenon DEF FindAttribute
  <2> HIDE DEF fe, t, hits, a
  <2> QED BY <1>2, <2>4, <2>5
<1> QED BY <1>3, <1>4

(* Then the methods end too. *)
LEMMA SoundMethods ==
    ASSUME NEW list, NEW args, NEW creds, NEW e \in Entity,
           WellFormed(e), args.instance \in Nat,
           Found(list, args.entityName, e), args.attributeName # EmptyName,
           \A j \in DOMAIN e.pAttributes : e.pAttributes[j].terminated
    PROVE  /\ GetEntityVersion(list, args.entityName).status = "done"
           /\ MethodQuery(list, args, creds).status = "done"
           /\ MethodRead(list, args, creds).status = "done"
           /\ MethodWrite(list, args, creds).status = "done"
           /\ MethodInit(list, args, creds).status = "done"
           /\ MethodShutdown(list, args, creds).status = "done"
<1>1. ASSUME NEW command
      PROVE  /\ FindAttribute(list, args, creds, command).status = "done"
             /\ FindAttribute(list, args, creds, command).rval = BSP_RVAL_OK
                  => FindAttribute(list, args, creds, command).pA # NULL
  BY SoundLookup
<1>2. GetEntityVersion(list, args.entityName).status = "done"
  BY DEF Found, GetEntityVersion, Returns
<1>3. MethodQuery(list, args, creds).status = "done"
  BY <1>1 DEF MethodQuery, WithAttribute, Returns, Calls
<1>4. /\ MethodRead(list, args, creds).status = "done"
      /\ MethodWrite(list, args, creds).status = "done"
  BY <1>1 DEF MethodRead, MethodWrite, MethodReadWrite, WithAttribute, Returns, Calls
<1>5. MethodInit(list, args, creds).status = "done"
  BY <1>1 DEF MethodInit, WithAttribute, Returns, Calls
<1>6. MethodShutdown(list, args, creds).status = "done"
  BY <1>1 DEF MethodShutdown, WithAttribute, Returns, Calls
<1> QED BY <1>2, <1>3, <1>4, <1>5, <1>6

(* bspMethodShutdown dereferences the attribute that an empty name leaves  *)
(* NULL.                                                                   *)
LEMMA EmptyNameDerefs ==
    ASSUME NEW list, NEW args, NEW creds, NEW e \in Entity,
           args.instance \in Nat, args.instance < e.instanceCount,
           Found(list, args.entityName, e), args.attributeName = EmptyName
    PROVE  MethodShutdown(list, args, creds).status # "done"
<1> DEFINE fa == FindAttribute(list, args, creds, "SHUTDOWN")
           fe == FindEntity(list, args.entityName)
<1>1. ~(args.instance >= e.instanceCount)
  BY DEF Entity
<1>2. fa = [status |-> "done", rval |-> BSP_RVAL_OK, pE |-> fe.pE, pA |-> NULL]
  BY <1>1, Zenon DEF Found, FindAttribute
<1>3. fa.status = "done" /\ fa.rval = BSP_RVAL_OK /\ fa.pA = NULL
  BY <1>2
<1> HIDE DEF fa
<1>4. MethodShutdown(list, args, creds) = DerefsNull
  BY <1>3, Zenon DEF MethodShutdown, WithAttribute, fa
<1> QED BY <1>4 DEF DerefsNull

----------------------------------------------------------------------------
(* The server.                                                              *)

(* What every case of the switch but the default is: a library call with a *)
(* good outcome that stays in the switch.                                  *)
CaseStep(here, next, out) ==
    /\ here \in CaseLabels /\ next \in CaseLabels
    /\ LibraryCase(here, next, out)
    /\ out.rvals \subseteq BSP_RVAL
    /\ \A c \in out.calls : c.named =>
          /\ msg.clientFD \in Fds
          /\ MayCall(bsp_fdtable[msg.clientFD].permissions,
                     TableOf(bspEntityList[c.pE], c.instance).attrs[c.pA],
                     c.method)

(* A case that calls a method of the library with the client's credentials. *)
LEMMA MethodCaseStep ==
    ASSUME NEW here \in CaseLabels, NEW next \in CaseLabels, NEW good,
           GoodOutcome(good, bspEntityList,
                       bsp_fdtable[msg.clientFD].permissions),
           NEW out, out = IF msg.clientFD \in Fds THEN good ELSE DerefsNull,
           LibraryCase(here, next, out)
    PROVE  CaseStep(here, next, out)
BY DEF CaseStep, GoodOutcome, DerefsNull

(* A case that checks args->size and calls no driver. *)
LEMMA SizedCaseStep ==
    ASSUME NEW here \in CaseLabels, NEW next \in CaseLabels, NEW good,
           good.rvals \subseteq BSP_RVAL, good.calls = {},
           NEW out, out = IF msg.args.size # 4
                            THEN Returns({"SPECIFIED_SIZE_INVALID"}) ELSE good,
           LibraryCase(here, next, out)
    PROVE  CaseStep(here, next, out)
<1>1. out.rvals \subseteq BSP_RVAL /\ out.calls = {}
  BY LibraryRvals DEF Returns
<1> QED BY <1>1 DEF CaseStep

(* Every step of the switch is a CaseStep or its default. *)
LEMMA SwitchStep ==
    ASSUME Switch
    PROVE  DefaultCase \/ \E here, next, out : CaseStep(here, next, out)
<1> DEFINE creds == bsp_fdtable[msg.clientFD].permissions
           Guarded(good) == IF msg.clientFD \in Fds THEN good ELSE DerefsNull
           Sized(good) == IF msg.args.size # 4
                            THEN Returns({"SPECIFIED_SIZE_INVALID"}) ELSE good
<1>0. CaseLabels = {"GET_ENTITY_VERSION", "GET_HARDWARE_VERSION",
                    "GET_CONSOLE_MASK", "QUERY", "READ", "WRITE", "INIT",
                    "SHUTDOWN", "GET_CONSOLE_TYPE", "default"}
  BY DEF CaseLabels
<1>1. CASE GetEntityVersionCase
  <2> DEFINE good == GetEntityVersion(bspEntityList, msg.args.entityName)
  <2>1. LibraryCase("GET_ENTITY_VERSION", "GET_HARDWARE_VERSION", Sized(good))
    BY <1>1 DEF GetEntityVersionCase, SizedCase
  <2>2. good.rvals \subseteq BSP_RVAL /\ good.calls = {}
    BY VersionGood
  <2> HIDE DEF good
  <2>3. CaseStep("GET_ENTITY_VERSION", "GET_HARDWARE_VERSION", Sized(good))
    BY <1>0, <2>1, <2>2, SizedCaseStep
  <2> QED BY <2>3
<1>2. CASE GetHardwareVersionCase
  <2> DEFINE good == Returns(BSP_RVAL_OK)
  <2>1. LibraryCase("GET_HARDWARE_VERSION", "GET_CONSOLE_MASK", Sized(good))
    BY <1>2 DEF GetHardwareVersionCase, SizedCase
  <2>2. good.rvals \subseteq BSP_RVAL /\ good.calls = {}
    BY LibraryRvals DEF Returns
  <2> HIDE DEF good
  <2>3. CaseStep("GET_HARDWARE_VERSION", "GET_CONSOLE_MASK", Sized(good))
    BY <1>0, <2>1, <2>2, SizedCaseStep
  <2> QED BY <2>3
<1>3. CASE GetConsoleMaskCase
  <2> DEFINE good == Calls(ConsoleRvals, {})
  <2>1. LibraryCase("GET_CONSOLE_MASK", "QUERY", Sized(good))
    BY <1>3 DEF GetConsoleMaskCase, SizedCase
  <2>2. good.rvals \subseteq BSP_RVAL /\ good.calls = {}
    BY LibraryRvals DEF Calls, ConsoleRvals
  <2> HIDE DEF good
  <2>3. CaseStep("GET_CONSOLE_MASK", "QUERY", Sized(good))
    BY <1>0, <2>1, <2>2, SizedCaseStep
  <2> QED BY <2>3
<1>4. CASE GetConsoleTypeCase
  <2> DEFINE good == Calls(ConsoleRvals, {})
  <2>1. LibraryCase("GET_CONSOLE_TYPE", "default", Sized(good))
    BY <1>4 DEF GetConsoleTypeCase, SizedCase
  <2>2. good.rvals \subseteq BSP_RVAL /\ good.calls = {}
    BY LibraryRvals DEF Calls, ConsoleRvals
  <2> HIDE DEF good
  <2>3. CaseStep("GET_CONSOLE_TYPE", "default", Sized(good))
    BY <1>0, <2>1, <2>2, SizedCaseStep
  <2> QED BY <2>3
<1>5. CASE QueryCase
  <2> DEFINE good == MethodQuery(bspEntityList, msg.args, creds)
  <2>1. LibraryCase("QUERY", "READ", Guarded(good))
    BY <1>5 DEF QueryCase, MethodCase
  <2>2. GoodOutcome(good, bspEntityList, creds)
    BY QueryGood
  <2> HIDE DEF good
  <2> QED BY <1>0, <2>1, <2>2, MethodCaseStep
<1>6. CASE ReadCase
  <2> DEFINE good == MethodRead(bspEntityList, msg.args, creds)
  <2>1. LibraryCase("READ", "WRITE", Guarded(good))
    BY <1>6 DEF ReadCase, MethodCase
  <2>2. GoodOutcome(good, bspEntityList, creds)
    BY ReadWriteGood DEF MethodRead
  <2> HIDE DEF good
  <2> QED BY <1>0, <2>1, <2>2, MethodCaseStep
<1>7. CASE WriteCase
  <2> DEFINE good == MethodWrite(bspEntityList, msg.args, creds)
  <2>1. LibraryCase("WRITE", "INIT", Guarded(good))
    BY <1>7 DEF WriteCase, MethodCase
  <2>2. GoodOutcome(good, bspEntityList, creds)
    BY ReadWriteGood DEF MethodWrite
  <2> HIDE DEF good
  <2> QED BY <1>0, <2>1, <2>2, MethodCaseStep
<1>8. CASE InitCase
  <2> DEFINE good == MethodInit(bspEntityList, msg.args, creds)
  <2>1. LibraryCase("INIT", "SHUTDOWN", Guarded(good))
    BY <1>8 DEF InitCase, MethodCase
  <2>2. GoodOutcome(good, bspEntityList, creds)
    BY InitGood
  <2> HIDE DEF good
  <2> QED BY <1>0, <2>1, <2>2, MethodCaseStep
<1>9. CASE ShutdownCase
  <2> DEFINE good == MethodShutdown(bspEntityList, msg.args, creds)
  <2>1. LibraryCase("SHUTDOWN", "GET_CONSOLE_TYPE", Guarded(good))
    BY <1>9 DEF ShutdownCase, MethodCase
  <2>2. GoodOutcome(good, bspEntityList, creds)
    BY ShutdownGood
  <2> HIDE DEF good
  <2> QED BY <1>0, <2>1, <2>2, MethodCaseStep
<1> QED BY <1>1, <1>2, <1>3, <1>4, <1>5, <1>6, <1>7, <1>8, <1>9 DEF Switch

----------------------------------------------------------------------------
(* Where a step of main() may lead. *)
LEMMA CaseOfLabel == \A n : CaseOf(n) \in CaseLabels
BY DEF CaseOf, CaseLabels

(* The message left by a reply has the type of a message. *)
LEMMA NoMessageType == NoMessage \in Message
BY DEF NoMessage, Message, Args, Permissions, EmptyName

(* Registering an entity keeps the list a bounded list of entities. *)
LEMMA InsertAfterType ==
    ASSUME NEW list \in Seq(Entity), NEW e \in Entity,
           NEW p \in 0 .. Len(list)
    PROVE  /\ InsertAfter(list, p, e) \in Seq(Entity)
           /\ Len(InsertAfter(list, p, e)) = Len(list) + 1
<1> DEFINE new == InsertAfter(list, p, e)
           n   == Len(list) + 1
<1>1. n \in Nat /\ DOMAIN new = 1 .. n
  BY DEF InsertAfter
<1>2. \A i \in 1 .. n : new[i] \in Entity
  BY DEF InsertAfter
<1>3. new \in [1 .. n -> Entity]
  BY <1>1, <1>2 DEF InsertAfter
<1> HIDE DEF new, n
<1>4. new \in Seq(Entity) /\ Len(new) = n
  BY <1>1, <1>3
<1> QED BY <1>4 DEF new, n

(* Every action keeps the shapes of the variables. *)
LEMMA TypeStep ==
    ASSUME TypeOK, [Next]_vars
    PROVE  TypeOK'
<1>0. /\ StartLabels \cup EndLabels \cup CaseLabels \subseteq Labels
      /\ {"Receive", "Dispatch", "Free", "Reply", "ReportErr"} \subseteq Labels
      /\ {"CreateQueue", "Register", "Associate", "Install", "SetReady"}
            \subseteq Labels
      /\ {"Returned", "Panicked", "Undefined", "Hung"} \subseteq Labels
  BY DEF Labels, LoopLabels, StartLabels, EndLabels
<1>r. /\ IOS_ERROR_INVALID \in Results /\ IOS_ERROR_NOEXISTS \in Results
      /\ BSP_RVAL \subseteq Results
  BY DEF Results
<1>f. FreeSlot \in Slot
  BY DEF FreeSlot, Slot, Permissions
<1>1. ASSUME NEW c \in Clients, Send(c) PROVE TypeOK'
  BY <1>1 DEF Send, TypeOK, message, answer, install
<1>2. CASE CreateHeap
  BY <1>2, <1>0, <1>f DEF CreateHeap, TypeOK, clients, message, answer, install
<1>3. CASE CreateMessageQueue \/ RegisterResourceManager \/ DeviceAssociate
  BY <1>3, <1>0 DEF CreateMessageQueue, RegisterResourceManager,
     DeviceAssociate, KernelCall, TypeOK, clients, message, answer, install
<1>4. CASE InstallNext
  <2>1. Installs[installed + 1] \in Entity
    BY <1>4, ConstantsAssumption DEF InstallNext, TypeOK
  <2>2. bspEntityList' \in Seq(Entity) /\ Len(bspEntityList') <= MaxEntities
    BY <1>4, <2>1, InsertAfterType, ConstantsAssumption
       DEF InstallNext, RegisterEntity, TypeOK
  <2>3. ret' \in BSP_RVAL
    BY <1>4 DEF InstallNext, RegisterEntity, TypeOK, BSP_RVAL, RvalFlags
  <2>4. installed' \in 0 .. Len(Installs)
    BY <1>4, ConstantsAssumption DEF InstallNext, TypeOK
  <2> QED BY <1>4, <2>2, <2>3, <2>4
          DEF InstallNext, TypeOK, clients, message, answer
<1>5. CASE InstallDone \/ SetBSPReady \/ ReceiveError \/ ReportErr
  BY <1>5, <1>0 DEF InstallDone, SetBSPReady, ReceiveError, ReportErr, TypeOK,
     clients, message, answer, install
<1>6. CASE ReceiveMessage
  <2>1. Head(queue) \in Clients /\ Tail(queue) \in Seq(Clients)
    BY <1>6 DEF ReceiveMessage, TypeOK
  <2> QED BY <1>6, <1>0, <2>1, ConstantsAssumption
          DEF ReceiveMessage, TypeOK, install
<1>7. CASE Close
  BY <1>7, <1>0, <1>r DEF Close, CheckFd, SetResult, TypeOK, clients, message,
     install
<1>8. CASE Ioctl
  BY <1>8, <1>0, <1>r, CaseOfLabel DEF Ioctl, CheckFd, SetResult, TypeOK,
     clients, message, install
<1>9. CASE FreeFd
  BY <1>9, <1>0, <1>f DEF FreeFd, TypeOK, clients, message, answer, install
<1>10. CASE OpenFd
  <2>1. msg.arg4 \in Permissions
    BY DEF TypeOK, Message
  <2>2. bsp_fdtable' \in [Fds -> Slot]
    BY <1>10, <2>1 DEF OpenFd, Allocated, Slot, TypeOK
  <2> QED BY <1>10, <1>0, <2>2
          DEF OpenFd, TypeOK, clients, message, answer, install
<1>11. CASE OpenFull
  BY <1>11, <1>0 DEF OpenFull, TypeOK, clients, message, answer, install
<1>12. CASE OtherCommand \/ DefaultCase
  BY <1>12, <1>0, <1>r DEF OtherCommand, DefaultCase, SetResult, TypeOK,
     clients, message, install
<1>13. ASSUME NEW here, NEW next, NEW out, CaseStep(here, next, out)
       PROVE  TypeOK'
  BY <1>13, <1>0, <1>r DEF CaseStep, LibraryCase, SetResult, TypeOK, clients,
     message, install
<1>14. CASE ResourceReply
  BY <1>14, <1>0, NoMessageType DEF ResourceReply, TypeOK, install
<1>15. CASE UNCHANGED vars
  BY <1>15 DEF vars, TypeOK
<1> QED
  BY <1>1, <1>2, <1>3, <1>4, <1>5, <1>6, <1>7, <1>8, <1>9, <1>10, <1>11,
     <1>12, <1>13, <1>14, <1>15, SwitchStep
     DEF Next, Server, Startup, Dispatch

(* The type invariant holds in every behaviour of the server. *)
THEOREM TypeCorrect == Spec => []TypeOK
<1>1. Init => TypeOK
  <2>1. FreeSlot \in Slot
    BY DEF FreeSlot, Slot, Permissions
  <2>2. Garbage \in Results /\ BSP_RVAL_OK \in BSP_RVAL
    BY DEF Results, BSP_RVAL, BSP_RVAL_OK
  <2>3. << >> \in Seq(Clients) /\ << >> \in Seq(Entity) /\ Len(<< >>) = 0
    OBVIOUS
  <2>4. 0 \in 0 .. Len(Installs) /\ 0 <= MaxEntities
    BY ConstantsAssumption
  <2>5. "CreateHeap" \in Labels
    BY DEF Labels, StartLabels
  <2> QED BY <2>1, <2>2, <2>3, <2>4, <2>5, NoMessageType DEF Init, TypeOK
<1>2. TypeOK /\ [Next]_vars => TypeOK'
  BY TypeStep
<1> QED BY <1>1, <1>2, PTL DEF Spec

----------------------------------------------------------------------------
(* CallsPermitted is about the tables as they are now, so its invariant    *)
(* says that nothing was called yet wherever a table can change, and that  *)
(* the switch is entered with an open descriptor or one outside the table. *)
CallInv ==
    /\ CallsPermitted
    /\ pc \in StartLabels \cup {"Receive", "Dispatch", "Free"} => calls = {}
    /\ pc \in CaseLabels => FdAccepted(msg.clientFD) \/ FdOutside(msg.clientFD)

(* A step that leaves the tables, the message and the calls alone keeps    *)
(* the invariant, provided it does not enter the switch.                   *)
LEMMA CallFrame ==
    ASSUME CallInv, UNCHANGED <<msg, bsp_fdtable, bspEntityList, calls>>,
           pc' \in StartLabels \cup {"Receive", "Dispatch", "Free"} => calls = {},
           pc' \notin CaseLabels \/ pc \in CaseLabels
    PROVE  CallInv'
<1>1. CallsPermitted'
  BY DEF CallInv, CallsPermitted, FdAccepted
<1> QED BY <1>1 DEF CallInv, FdAccepted, FdOutside

(* Every action keeps it. *)
LEMMA CallStep ==
    ASSUME TypeOK, CallInv, [Next]_vars
    PROVE  CallInv'
<1> DEFINE Idle == StartLabels \cup {"Receive", "Dispatch", "Free"}
<1>0. /\ \A l \in CaseLabels \cup EndLabels \cup {"Reply", "ReportErr"} :
            l \notin Idle
      /\ \A l \in Idle \cup EndLabels \cup {"Reply", "ReportErr"} :
            l \notin CaseLabels
  BY DEF CaseLabels, EndLabels, StartLabels
<1>e. {"Returned", "Panicked", "Undefined", "Hung"} = EndLabels
  BY DEF EndLabels
<1>s. {"CreateHeap", "CreateQueue", "Register", "Associate", "Install",
       "SetReady"} = StartLabels
  BY DEF StartLabels
<1>1. ASSUME NEW c \in Clients, Send(c) PROVE CallInv'
  <2>1. UNCHANGED <<pc, msg, bsp_fdtable, bspEntityList, calls>>
    BY <1>1 DEF Send, message, answer, install
  <2> QED BY <2>1, CallFrame DEF CallInv
<1>2. CASE CreateHeap
  <2>1. calls = {} /\ calls' = {}
    BY <1>2, <1>s DEF CreateHeap, answer, CallInv
  <2>2. pc' \notin CaseLabels
    BY <1>2, <1>0, <1>s, <1>e DEF CreateHeap
  <2> QED BY <2>1, <2>2 DEF CallInv, CallsPermitted
<1>3. CASE CreateMessageQueue \/ RegisterResourceManager \/ DeviceAssociate
  <2>1. /\ UNCHANGED <<msg, bsp_fdtable, bspEntityList, calls>>
        /\ pc \in StartLabels /\ pc' \in StartLabels \cup {"ReportErr"}
    BY <1>3, <1>s DEF CreateMessageQueue, RegisterResourceManager,
       DeviceAssociate, KernelCall, message, answer, install
  <2> QED BY <2>1, <1>0, CallFrame DEF CallInv
<1>4. CASE InstallNext
  <2>1. calls = {} /\ calls' = {} /\ pc' = pc /\ pc = "Install"
    BY <1>4, <1>s DEF InstallNext, answer, CallInv
  <2> QED BY <2>1, <1>0, <1>s DEF CallInv, CallsPermitted
<1>5. CASE InstallDone \/ SetBSPReady \/ ReceiveError \/ ReportErr
  <2>1. /\ UNCHANGED <<msg, bsp_fdtable, bspEntityList, calls>>
        /\ \/ pc \in Idle /\ pc' \in Idle \cup {"ReportErr"}
           \/ pc' \in EndLabels
    BY <1>5, <1>s, <1>e DEF InstallDone, SetBSPReady, ReceiveError, ReportErr,
       message, answer, install
  <2> QED BY <2>1, <1>0, CallFrame DEF CallInv
<1>6. CASE ReceiveMessage
  <2>1. calls' = {} /\ pc' = "Dispatch"
    BY <1>6 DEF ReceiveMessage
  <2> QED BY <2>1, <1>0 DEF CallInv, CallsPermitted
<1>7. CASE Close \/ OpenFull \/ OtherCommand \/ DefaultCase
  <2>1. /\ UNCHANGED <<msg, bsp_fdtable, bspEntityList, calls>>
        /\ pc' \in {"Reply", "Free"}
        /\ pc' = "Free" => pc = "Dispatch"
    BY <1>7 DEF Close, CheckFd, OpenFull, OtherCommand, DefaultCase,
       SetResult, message, answer, install
  <2> QED BY <2>1, <1>0, CallFrame DEF CallInv
<1>8. CASE Ioctl
  <2>1. /\ UNCHANGED <<msg, bsp_fdtable>>
        /\ calls = {} /\ calls' = {}
        /\ \/ pc' = "Reply"
           \/ pc' \in CaseLabels /\
              (FdAccepted(msg.clientFD) \/ FdOutside(msg.clientFD))
    BY <1>8, CaseOfLabel
       DEF Ioctl, CheckFd, SetResult, message, CallInv
  <2> QED BY <2>1, <1>0 DEF CallInv, CallsPermitted, FdAccepted, FdOutside
<1>9. CASE FreeFd \/ OpenFd
  <2>1. calls = {} /\ calls' = {} /\ pc' \in {"Reply", "Undefined"}
    BY <1>9 DEF FreeFd, OpenFd, answer, CallInv
  <2> QED BY <2>1, <1>0, <1>e DEF CallInv, CallsPermitted
<1>10. ASSUME NEW here, NEW next, NEW out, CaseStep(here, next, out)
       PROVE  CallInv'
  <2>1. /\ UNCHANGED <<msg, bsp_fdtable, bspEntityList>>
        /\ calls' = calls \cup out.calls
        /\ pc \in CaseLabels /\ pc' \in CaseLabels \cup EndLabels
    BY <1>10, <1>e
       DEF CaseStep, LibraryCase, SetResult, message, install
  <2>2. FdAccepted(msg.clientFD) \/ FdOutside(msg.clientFD)
    BY <2>1 DEF CallInv
  <2>3. msg.clientFD \in Fds => FdAccepted(msg.clientFD)
    BY <2>2, ConstantsAssumption DEF FdOutside, Fds
  <2>4. ASSUME NEW c \in calls', c.named
        PROVE  /\ FdAccepted(msg.clientFD)
               /\ MayCall(bsp_fdtable[msg.clientFD].permissions,
                    TableOf(bspEntityList[c.pE], c.instance).attrs[c.pA],
                    c.method)
    <3>1. CASE c \in calls
      BY <2>4, <3>1 DEF CallInv, CallsPermitted
    <3>2. CASE c \in out.calls
      BY <1>10, <2>3, <2>4, <3>2 DEF CaseStep
    <3> QED BY <2>1, <3>1, <3>2
  <2>5. CallsPermitted'
    BY <2>1, <2>4 DEF CallsPermitted, FdAccepted
  <2> QED BY <2>1, <2>2, <2>5, <1>0 DEF CallInv, FdAccepted, FdOutside
<1>11. CASE ResourceReply
  <2>1. calls' = {} /\ pc' = "Receive"
    BY <1>11 DEF ResourceReply
  <2> QED BY <2>1, <1>0 DEF CallInv, CallsPermitted
<1>12. CASE UNCHANGED vars
  BY <1>12, CallFrame DEF vars, CallInv
<1> QED
  BY <1>1, <1>2, <1>3, <1>4, <1>5, <1>6, <1>7, <1>8, <1>9, <1>10, <1>11,
     <1>12, SwitchStep DEF Next, Server, Startup, Dispatch

(* No driver method is called through an attribute name without the        *)
(* client's right to it, whatever cases the ioctl falls through.           *)
THEOREM PermissionSafety == Spec => []CallsPermitted
<1>1. Init => CallInv
  BY DEF Init, CallInv, CallsPermitted, CaseLabels
<1>2. TypeOK /\ CallInv /\ [Next]_vars => CallInv'
  BY CallStep
<1>3. CallInv => CallsPermitted
  BY DEF CallInv
<1> QED BY <1>1, <1>2, <1>3, TypeCorrect, PTL DEF Spec

----------------------------------------------------------------------------
(* The list is sorted and holds only what bspInstall registered; while no  *)
(* install has failed it holds all of it; and main() only gets past        *)
(* bspInstall when no install has failed.                                  *)
InstallInv ==
    /\ SortedList(bspEntityList)
    /\ \A i \in DOMAIN bspEntityList :
          \E k \in DOMAIN Installs : bspEntityList[i] = Installs[k]
    /\ ret = BSP_RVAL_OK =>
          \A k \in 1 .. installed :
             \E i \in DOMAIN bspEntityList : bspEntityList[i] = Installs[k]
    /\ pc \in {"SetReady"} \cup LoopLabels =>
          installed = Len(Installs) /\ ret = BSP_RVAL_OK

(* An insertion at the sorted place keeps the list sorted. *)
LEMMA InsertAfterSorted ==
    ASSUME NEW list \in Seq(Entity), SortedList(list), NEW e \in Entity,
           NEW p \in 0 .. Len(list), SortedPlace(list, p, e)
    PROVE  SortedList(InsertAfter(list, p, e))
<1> DEFINE new == InsertAfter(list, p, e)
<1> SUFFICES ASSUME NEW i \in DOMAIN new, NEW j \in DOMAIN new, i < j
             PROVE  new[i].pName < new[j].pName
  BY DEF SortedList
<1>1. DOMAIN new = 1 .. Len(list) + 1 /\ Len(list) \in Nat
  BY DEF InsertAfter
<1>2. /\ \A k \in 1 .. p : new[k] = list[k] /\ k \in DOMAIN list
      /\ new[p + 1] = e
      /\ \A k \in p + 2 .. Len(list) + 1 :
            new[k] = list[k - 1] /\ k - 1 \in DOMAIN list
  BY DEF InsertAfter
<1>3. \A k \in DOMAIN list : list[k].pName \in Nat
  BY ListOfEntities
<1>4. e.pName \in Nat
  BY DEF Entity
<1> HIDE DEF new
<1>5. CASE j <= p
  BY <1>1, <1>2, <1>5 DEF SortedList
<1>6. CASE j = p + 1
  <2>1. i \in 1 .. p
    BY <1>1, <1>6
  <2> QED BY <1>2, <1>6, <2>1 DEF SortedPlace
<1>7. CASE j > p + 1 /\ i <= p
  <2>1. i \in 1 .. p /\ j \in p + 2 .. Len(list) + 1 /\ i < j - 1
    BY <1>1, <1>7
  <2> QED BY <1>2, <2>1 DEF SortedList
<1>8. CASE j > p + 1 /\ i = p + 1
  <2>1. j - 1 \in p + 1 .. Len(list)
    BY <1>1, <1>8
  <2> QED BY <1>1, <1>2, <1>8, <2>1 DEF SortedPlace
<1>9. CASE j > p + 1 /\ i > p + 1
  <2>1. /\ i \in p + 2 .. Len(list) + 1 /\ j \in p + 2 .. Len(list) + 1
        /\ i - 1 < j - 1
    BY <1>1, <1>9
  <2> QED BY <1>2, <2>1 DEF SortedList
<1> QED BY <1>1, <1>5, <1>6, <1>7, <1>8, <1>9

(* An insertion adds its entity and keeps the others. *)
LEMMA InsertAfterElements ==
    ASSUME NEW list \in Seq(Entity), NEW e, NEW p \in 0 .. Len(list)
    PROVE  LET new == InsertAfter(list, p, e)
           IN  /\ \A i \in DOMAIN new :
                    new[i] = e \/ \E j \in DOMAIN list : new[i] = list[j]
               /\ \E i \in DOMAIN new : new[i] = e
               /\ \A j \in DOMAIN list :
                    \E i \in DOMAIN new : new[i] = list[j]
<1> DEFINE new == InsertAfter(list, p, e)
<1>1. /\ DOMAIN new = 1 .. Len(list) + 1 /\ Len(list) \in Nat
      /\ DOMAIN list = 1 .. Len(list)
  BY DEF InsertAfter
<1>2. \A i \in DOMAIN new :
         new[i] = e \/ \E j \in DOMAIN list : new[i] = list[j]
  BY <1>1 DEF InsertAfter
<1>3. p + 1 \in DOMAIN new /\ new[p + 1] = e
  BY <1>1 DEF InsertAfter
<1>4. ASSUME NEW j \in DOMAIN list
      PROVE  \E i \in DOMAIN new : new[i] = list[j]
  <2>1. CASE j <= p
    <3>1. j \in DOMAIN new /\ new[j] = list[j]
      BY <1>1, <2>1 DEF InsertAfter
    <3> QED BY <3>1
  <2>2. CASE j > p
    <3>1. j + 1 \in DOMAIN new /\ new[j + 1] = list[j]
      BY <1>1, <2>2 DEF InsertAfter
    <3> QED BY <3>1
  <2> QED BY <1>1, <2>1, <2>2
<1> QED BY <1>2, <1>3, <1>4

(* A step that leaves the list alone keeps the invariant unless it enters  *)
(* the loop from outside.                                                  *)
LEMMA InstallFrame ==
    ASSUME InstallInv, UNCHANGED install,
           pc' \in {"SetReady"} \cup LoopLabels =>
              \/ pc \in {"SetReady"} \cup LoopLabels
              \/ installed = Len(Installs) /\ ret = BSP_RVAL_OK
    PROVE  InstallInv'
BY DEF InstallInv, SortedList, install

(* Every action keeps it. *)
LEMMA InstallStep ==
    ASSUME TypeOK, InstallInv, [Next]_vars
    PROVE  InstallInv'
<1> DEFINE Served == {"SetReady"} \cup LoopLabels
<1>0. /\ {"CreateHeap", "CreateQueue", "Register", "Associate", "Install",
          "ReportErr"} \cap Served = {}
      /\ EndLabels \cap Served = {}
      /\ CaseLabels \subseteq Served
      /\ {"Receive", "Dispatch", "Free", "Reply", "SetReady", "default"}
            \subseteq Served
  BY DEF LoopLabels, CaseLabels, EndLabels
<1>e. {"Returned", "Panicked", "Undefined", "Hung"} = EndLabels
  BY DEF EndLabels
<1>1. ASSUME NEW c \in Clients, Send(c) PROVE InstallInv'
  BY <1>1, InstallFrame DEF Send
<1>2. CASE CreateHeap \/ CreateMessageQueue \/ RegisterResourceManager
           \/ DeviceAssociate \/ ReceiveError \/ ReportErr
  <2>1. UNCHANGED install /\ pc' \notin Served
    BY <1>2, <1>0, <1>e DEF CreateHeap, CreateMessageQueue, KernelCall,
       RegisterResourceManager, DeviceAssociate, ReceiveError, ReportErr
  <2> QED BY <2>1, InstallFrame
<1>3. CASE InstallNext
  <2> DEFINE e == Installs[installed + 1]
  <2>0. /\ pc = "Install" /\ pc' = "Install"
        /\ installed \in Nat /\ installed < Len(Installs)
        /\ installed' = installed + 1
    BY <1>3, ConstantsAssumption DEF InstallNext, TypeOK
  <2>1. /\ installed + 1 \in DOMAIN Installs /\ e \in Entity
        /\ bspEntityList \in Seq(Entity)
    BY <2>0, ConstantsAssumption DEF TypeOK
  <2>2. CASE UNCHANGED bspEntityList /\ ret' # BSP_RVAL_OK
    BY <2>0, <2>2, <1>0 DEF InstallInv, SortedList
  <2>3. CASE \E p \in 0 .. Len(bspEntityList) :
                /\ SortedPlace(bspEntityList, p, e)
                /\ bspEntityList' = InsertAfter(bspEntityList, p, e)
                /\ UNCHANGED ret
    <3>1. PICK p \in 0 .. Len(bspEntityList) :
                /\ SortedPlace(bspEntityList, p, e)
                /\ bspEntityList' = InsertAfter(bspEntityList, p, e)
                /\ UNCHANGED ret
      BY <2>3
    <3> HIDE DEF e
    <3>2. SortedList(bspEntityList')
      BY <3>1, <2>1, InsertAfterSorted DEF InstallInv
    <3>3. /\ \A i \in DOMAIN bspEntityList' :
               \/ bspEntityList'[i] = e
               \/ \E j \in DOMAIN bspEntityList :
                     bspEntityList'[i] = bspEntityList[j]
          /\ \E i \in DOMAIN bspEntityList' : bspEntityList'[i] = e
          /\ \A j \in DOMAIN bspEntityList :
               \E i \in DOMAIN bspEntityList' :
                  bspEntityList'[i] = bspEntityList[j]
      BY <3>1, <2>1, InsertAfterElements
    <3>4. \A i \in DOMAIN bspEntityList' :
             \E k \in DOMAIN Installs : bspEntityList'[i] = Installs[k]
      BY <3>3, <2>1 DEF InstallInv, e
    <3>5. ASSUME ret = BSP_RVAL_OK, NEW k \in 1 .. installed + 1
          PROVE  \E i \in DOMAIN bspEntityList' :
                    bspEntityList'[i] = Installs[k]
      <4>1. CASE k = installed + 1
        BY <3>3, <4>1 DEF e
      <4>2. CASE k \in 1 .. installed
        BY <3>3, <3>5, <4>2 DEF InstallInv
      <4> QED BY <2>0, <4>1, <4>2
    <3>6. SortedList(bspEntityList)'
      BY <3>2 DEF SortedList
    <3> QED BY <2>0, <3>1, <3>4, <3>5, <3>6, <1>0 DEF InstallInv
  <2>4. ret \cup {"ENTITY_LIST_FULL"} # BSP_RVAL_OK
        /\ ret \cup {"UNKNOWN_HARDWARE_VERSION"} # BSP_RVAL_OK
    BY DEF BSP_RVAL_OK
  <2> QED BY <1>3, <2>2, <2>3, <2>4 DEF InstallNext, RegisterEntity
<1>4. CASE InstallDone
  <2>1. UNCHANGED install /\ installed = Len(Installs)
        /\ (ret = BSP_RVAL_OK \/ pc' = "ReportErr")
    BY <1>4 DEF InstallDone
  <2> QED BY <2>1, <1>0, InstallFrame
<1>5. CASE SetBSPReady \/ ReceiveMessage \/ Dispatch \/ DefaultCase
           \/ ResourceReply
  <2>1. UNCHANGED install /\ pc \in Served
    BY <1>5, <1>0 DEF SetBSPReady, ReceiveMessage, Dispatch, Close, Ioctl,
       CheckFd, FreeFd, OpenFd, OpenFull, OtherCommand, DefaultCase,
       ResourceReply
  <2> QED BY <2>1, InstallFrame
<1>6. ASSUME NEW here, NEW next, NEW out, CaseStep(here, next, out)
      PROVE  InstallInv'
  <2>1. UNCHANGED install /\ pc \in CaseLabels
    BY <1>6 DEF CaseStep, LibraryCase
  <2> QED BY <2>1, <1>0, InstallFrame
<1>7. CASE UNCHANGED vars
  BY <1>7, InstallFrame DEF vars, install
<1> QED
  BY <1>1, <1>2, <1>3, <1>4, <1>5, <1>6, <1>7, SwitchStep
     DEF Next, Server, Startup

(* InstallInv holds in every behaviour. *)
THEOREM InstallCorrect == Spec => []InstallInv
<1>1. Init => InstallInv
  BY DEF Init, InstallInv, SortedList, LoopLabels, CaseLabels
<1>2. TypeOK /\ InstallInv /\ [Next]_vars => InstallInv'
  BY InstallStep
<1> QED BY <1>1, <1>2, TypeCorrect, PTL DEF Spec

(* While the server answers requests, bspFindEntity finds every entity     *)
(* that bspInstall registered.                                             *)
THEOREM LookupCorrect == Spec => []LookupComplete
<1>1. TypeOK /\ InstallInv => LookupComplete
  <2> SUFFICES ASSUME TypeOK, InstallInv, pc \in LoopLabels,
                      NEW k \in DOMAIN Installs
               PROVE  LET fe == FindEntity(bspEntityList, Installs[k].pName)
                      IN  /\ fe.pE # NULL
                          /\ fe.rval = BSP_RVAL_OK
                          /\ bspEntityList[fe.pE] = Installs[k]
    BY DEF LookupComplete
  <2>1. k \in 1 .. installed /\ ret = BSP_RVAL_OK
    BY ConstantsAssumption DEF InstallInv
  <2>2. PICK i \in DOMAIN bspEntityList : bspEntityList[i] = Installs[k]
    BY <2>1 DEF InstallInv
  <2>3. FindEntity(bspEntityList, Installs[k].pName)
           = [rval |-> BSP_RVAL_OK, pE |-> i]
    BY <2>2, FindEntityComplete DEF InstallInv, TypeOK
  <2>4. i # NULL
    BY DEF TypeOK, NULL
  <2> QED BY <2>2, <2>3, <2>4
<1> QED BY <1>1, TypeCorrect, InstallCorrect, PTL

(* An unknown name is never found, and goes unreported exactly when it     *)
(* sorts after every entity.                                               *)
THEOREM UnknownNameCorrect == Spec => []UnknownNameAnswer
<1>1. TypeOK /\ InstallInv => UnknownNameAnswer
  <2> SUFFICES ASSUME TypeOK, InstallInv, ~Installed(msg.args.entityName)
               PROVE  UnknownNameAnswer
    BY DEF UnknownNameAnswer
  <2>1. msg.args.entityName \in Nat /\ bspEntityList \in Seq(Entity)
    BY DEF TypeOK, Message, Args
  <2>2. \A i \in DOMAIN bspEntityList :
           bspEntityList[i].pName # msg.args.entityName
    BY DEF InstallInv, Installed
  <2> QED BY <2>1, <2>2, FindEntityMiss DEF UnknownNameAnswer
<1> QED BY <1>1, TypeCorrect, InstallCorrect, PTL

----------------------------------------------------------------------------
(* OneReplyPerRequest needs one more fact to be inductive: no message is   *)
(* being handled when the next one is received.                            *)
ReplyInv ==
    /\ OneReplyPerRequest
    /\ pc \in StartLabels \cup {"Receive"} => client = NoClient

(* The bookkeeping of the clients, without the place of the server. *)
Waiting == {c \in Clients : cstate[c] = "waiting"}
Booked ==
    /\ IsInjective(queue)
    /\ client \notin Range(queue)
    /\ Waiting = Range(queue) \cup ({client} \ {NoClient})

(* ReplyInv is the bookkeeping and two facts about pc. *)
LEMMA ReplyInvParts ==
    ReplyInv <=> /\ Booked
                 /\ pc \in LoopLabels \ {"Receive"} => client # NoClient
                 /\ pc \in StartLabels \cup {"Receive"} => client = NoClient
BY DEF ReplyInv, OneReplyPerRequest, Booked, Waiting

(* The queue's own facts: what Append and Tail do to the elements. *)
LEMMA AppendElements ==
    ASSUME NEW q \in Seq(Clients), NEW c, IsInjective(q), c \notin Range(q)
    PROVE  /\ IsInjective(Append(q, c))
           /\ Range(Append(q, c)) = Range(q) \cup {c}
BY DEF IsInjective, Range

(* See AppendElements. *)
LEMMA TailElements ==
    ASSUME NEW q \in Seq(Clients), q # << >>, IsInjective(q)
    PROVE  /\ IsInjective(Tail(q))
           /\ Head(q) \in Range(q)
           /\ Range(Tail(q)) = Range(q) \ {Head(q)}
<1>1. /\ Len(q) \in Nat \ {0} /\ DOMAIN q = 1 .. Len(q)
      /\ DOMAIN Tail(q) = 1 .. Len(q) - 1
      /\ \A i \in 1 .. Len(q) - 1 : Tail(q)[i] = q[i + 1]
      /\ Head(q) = q[1]
  OBVIOUS
<1>2. IsInjective(Tail(q))
  BY <1>1 DEF IsInjective
<1>3. Head(q) \in Range(q)
  BY <1>1 DEF Range
<1>4. ASSUME NEW x \in Range(Tail(q)) PROVE x \in Range(q) \ {Head(q)}
  <2>1. PICK i \in 1 .. Len(q) - 1 : x = q[i + 1]
    BY <1>1 DEF Range
  <2>2. i + 1 \in DOMAIN q /\ 1 \in DOMAIN q /\ i + 1 # 1
    BY <1>1
  <2> QED BY <1>1, <2>1, <2>2 DEF Range, IsInjective
<1>5. ASSUME NEW x \in Range(q) \ {Head(q)} PROVE x \in Range(Tail(q))
  <2>1. PICK i \in DOMAIN q : x = q[i]
    BY DEF Range
  <2>2. i - 1 \in DOMAIN Tail(q) /\ Tail(q)[i - 1] = x
    BY <1>1, <1>5, <2>1
  <2> QED BY <2>2 DEF Range
<1> QED BY <1>2, <1>3, <1>4, <1>5

(* The queue holds clients only. *)
LEMMA RangeOfQueue == TypeOK => Range(queue) \subseteq Clients
BY DEF TypeOK, Range

(* A step that leaves the clients alone keeps the invariant when it stays  *)
(* in the handling of a message, or stays out of it.                       *)
LEMMA ReplyFrame ==
    ASSUME ReplyInv, UNCHANGED <<queue, cstate, client>>,
           \/ pc' = pc
           \/ pc \in LoopLabels \ {"Receive"} /\ pc' \notin StartLabels \cup {"Receive"}
           \/ pc \in StartLabels /\ pc' \notin LoopLabels \ {"Receive"}
           \/ pc' \in EndLabels \cup {"ReportErr"}
    PROVE  ReplyInv'
<1>1. Booked'
  BY ReplyInvParts DEF Booked, Waiting
<1>2. /\ (EndLabels \cup {"ReportErr"}) \cap (StartLabels \cup LoopLabels) = {}
      /\ "Receive" \in LoopLabels
  BY DEF EndLabels, StartLabels, LoopLabels, CaseLabels
<1>3. /\ pc' \in LoopLabels \ {"Receive"} => client' # NoClient
      /\ pc' \in StartLabels \cup {"Receive"} => client' = NoClient
  BY <1>2, ReplyInvParts
<1> QED BY <1>1, <1>3 DEF ReplyInv, OneReplyPerRequest, Booked, Waiting

(* Every action keeps it. *)
LEMMA ReplyStep ==
    ASSUME TypeOK, ReplyInv, [Next]_vars
    PROVE  ReplyInv'
<1> DEFINE Busy == LoopLabels \ {"Receive"}
<1>0. /\ {"Dispatch", "Free", "Reply", "default"} \subseteq Busy
      /\ CaseLabels \subseteq Busy
      /\ Busy \cap (StartLabels \cup {"Receive", "ReportErr"} \cup EndLabels) = {}
      /\ EndLabels \cap (StartLabels \cup {"Receive"}) = {}
  BY DEF LoopLabels, CaseLabels, StartLabels, EndLabels
<1>e. {"Returned", "Panicked", "Undefined", "Hung"} = EndLabels
  BY DEF EndLabels
<1>s. {"CreateHeap", "CreateQueue", "Register", "Associate", "Install",
       "SetReady"} = StartLabels
  BY DEF StartLabels
<1>c. NoClient \notin Clients /\ Range(queue) \subseteq Clients
  BY RangeOfQueue, ConstantsAssumption
<1>b. Booked
  BY ReplyInvParts
<1>1. ASSUME NEW c \in Clients, Send(c) PROVE ReplyInv'
  <2>1. /\ UNCHANGED <<pc, client>> /\ c \notin Waiting
        /\ queue' = Append(queue, c) /\ Waiting' = Waiting \cup {c}
    BY <1>1 DEF Send, message, Waiting, TypeOK
  <2>2. c \notin Range(queue) /\ client # c
    BY <2>1, <1>b, <1>c DEF Booked
  <2>3. /\ IsInjective(queue') /\ Range(queue') = Range(queue) \cup {c}
    BY <1>b, <2>1, <2>2, AppendElements DEF Booked, TypeOK
  <2>4. /\ client' \notin Range(queue')
        /\ Waiting' = Range(queue') \cup ({client'} \ {NoClient})
    BY <1>b, <1>c, <2>1, <2>2, <2>3 DEF Booked
  <2> QED BY <2>1, <2>3, <2>4, ReplyInvParts
          DEF ReplyInv, OneReplyPerRequest, Waiting
<1>2. CASE Startup
  <2>1. /\ UNCHANGED <<queue, cstate, client>>
        /\ pc \in StartLabels /\ pc' \notin Busy
    BY <1>2, <1>0, <1>e, <1>s DEF Startup, CreateHeap, CreateMessageQueue,
       RegisterResourceManager, DeviceAssociate, KernelCall, InstallNext,
       InstallDone, SetBSPReady, clients, message
  <2> QED BY <2>1, ReplyFrame
<1>3. CASE ReceiveError \/ ReportErr
  <2>1. /\ UNCHANGED <<queue, cstate, client>>
        /\ pc' \in EndLabels \cup {"ReportErr"}
    BY <1>3, <1>e DEF ReceiveError, ReportErr, clients, message
  <2> QED BY <2>1, ReplyFrame
<1>4. CASE ReceiveMessage
  <2>1. /\ queue # << >> /\ client' = Head(queue) /\ queue' = Tail(queue)
        /\ Waiting' = Waiting /\ client = NoClient /\ pc' = "Dispatch"
    BY <1>4, ReplyInvParts DEF ReceiveMessage, Waiting
  <2>2. /\ IsInjective(queue') /\ client' \in Range(queue)
        /\ Range(queue') = Range(queue) \ {client'}
    BY <2>1, <1>b, TailElements DEF Booked, TypeOK
  <2>3. /\ client' \notin Range(queue') /\ client' # NoClient
        /\ Waiting' = Range(queue') \cup ({client'} \ {NoClient})
    BY <1>b, <1>c, <2>1, <2>2 DEF Booked
  <2> QED BY <1>0, <2>1, <2>2, <2>3
          DEF ReplyInv, OneReplyPerRequest, Waiting
<1>5. CASE Dispatch \/ DefaultCase
  <2>1. /\ UNCHANGED <<queue, cstate, client>>
        /\ pc \in Busy /\ pc' \notin StartLabels \cup {"Receive"}
    BY <1>5, <1>0, <1>e, CaseOfLabel DEF Dispatch, Close, Ioctl, CheckFd,
       SetResult, FreeFd, OpenFd, OpenFull, OtherCommand, DefaultCase,
       clients, message
  <2> QED BY <2>1, ReplyFrame
<1>6. ASSUME NEW here, NEW next, NEW out, CaseStep(here, next, out)
      PROVE  ReplyInv'
  <2>1. /\ UNCHANGED <<queue, cstate, client>>
        /\ pc \in CaseLabels /\ pc' \in CaseLabels \cup EndLabels
    BY <1>6, <1>e DEF CaseStep, LibraryCase, SetResult, clients, message
  <2>2. pc \in Busy /\ pc' \notin StartLabels \cup {"Receive"}
    BY <2>1, <1>0 DEF EndLabels, StartLabels
  <2> QED BY <2>1, <2>2, ReplyFrame
<1>7. CASE ResourceReply
  <2>1. /\ UNCHANGED queue /\ client' = NoClient /\ pc' = "Receive"
        /\ client \in Clients /\ Waiting' = Waiting \ {client}
    BY <1>7, <1>0, ReplyInvParts DEF ResourceReply, TypeOK, Waiting
  <2>2. /\ client' \notin Range(queue')
        /\ Waiting' = Range(queue') \cup ({client'} \ {NoClient})
        /\ IsInjective(queue')
    BY <1>b, <1>c, <2>1 DEF Booked
  <2> QED BY <2>1, <2>2 DEF ReplyInv, OneReplyPerRequest, Waiting
<1>8. CASE UNCHANGED vars
  BY <1>8, ReplyFrame DEF vars
<1> QED
  BY <1>1, <1>2, <1>3, <1>4, <1>5, <1>6, <1>7, <1>8, SwitchStep
     DEF Next, Server

(* No request is lost, answered twice or answered to somebody else. *)
THEOREM ReplyCorrect == Spec => []OneReplyPerRequest
<1>1. Init => ReplyInv
  BY DEF Init, ReplyInv, OneReplyPerRequest, IsInjective, Range, LoopLabels,
     CaseLabels
<1>2. TypeOK /\ ReplyInv /\ [Next]_vars => ReplyInv'
  BY ReplyStep
<1>3. ReplyInv => OneReplyPerRequest
  BY DEF ReplyInv
<1> QED BY <1>1, <1>2, <1>3, TypeCorrect, PTL DEF Spec

----------------------------------------------------------------------------
(* The table is empty when main() clears it. *)
HeapInv == pc = "CreateHeap" => \A fd \in Fds : ~bsp_fdtable[fd].active

(* What DescriptorKept says of one step. *)
KeptStep ==
    \A fd \in Fds :
        bsp_fdtable[fd].active =>
          \/ bsp_fdtable'[fd] = bsp_fdtable[fd]
          \/ pc = "Free" /\ msg.clientFD = fd /\ ~bsp_fdtable'[fd].active

(* Nothing returns to the creation of the heap. *)
LEMMA HeapStep ==
    ASSUME HeapInv, [Next]_vars
    PROVE  HeapInv'
<1>0. "CreateHeap" \notin CaseLabels \cup EndLabels
  BY DEF CaseLabels, EndLabels
<1>1. ASSUME NEW here, NEW next, NEW out, CaseStep(here, next, out)
      PROVE  HeapInv'
  <2>1. pc' \in CaseLabels \cup {"Hung", "Undefined"}
    BY <1>1 DEF CaseStep, LibraryCase, SetResult
  <2> QED BY <2>1, <1>0 DEF HeapInv
<1>2. CASE Startup \/ ReceiveMessage \/ ReceiveError \/ ResourceReply
           \/ ReportErr
  <2>1. pc' # "CreateHeap"
    BY <1>2 DEF Startup, CreateHeap, CreateMessageQueue,
       RegisterResourceManager, DeviceAssociate, KernelCall, InstallNext,
       InstallDone, SetBSPReady, ReceiveMessage, ReceiveError, ResourceReply,
       ReportErr
  <2> QED BY <2>1 DEF HeapInv
<1>3. CASE Dispatch \/ DefaultCase
  <2>1. pc' \in CaseLabels \cup {"Reply", "Free", "Undefined"}
    BY <1>3, CaseOfLabel DEF Dispatch, Close, Ioctl, CheckFd, SetResult,
       FreeFd, OpenFd, OpenFull, OtherCommand, DefaultCase
  <2> QED BY <2>1, <1>0 DEF HeapInv
<1>4. CASE (\E c \in Clients : Send(c)) \/ UNCHANGED vars
  BY <1>4 DEF HeapInv, Send, vars
<1> QED BY <1>1, <1>2, <1>3, <1>4, SwitchStep DEF Next, Server

(* No step takes the slot of an open descriptor, but the CLOSE of that     *)
(* descriptor.                                                             *)
LEMMA KeptEachStep ==
    ASSUME TypeOK, HeapInv, [Next]_vars
    PROVE  KeptStep
<1>1. CASE CreateHeap
  BY <1>1 DEF CreateHeap, HeapInv, KeptStep
<1>2. CASE FreeFd
  BY <1>2 DEF FreeFd, FreeSlot, KeptStep, TypeOK
<1>3. CASE OpenFd
  BY <1>3 DEF OpenFd, FirstFree, Allocated, KeptStep, TypeOK
<1>4. CASE UNCHANGED bsp_fdtable
  BY <1>4 DEF KeptStep
<1>5. ASSUME NEW here, NEW next, NEW out, CaseStep(here, next, out)
      PROVE  UNCHANGED bsp_fdtable
  BY <1>5 DEF CaseStep, LibraryCase
<1>6. CASE \/ CreateMessageQueue \/ RegisterResourceManager
           \/ DeviceAssociate \/ InstallNext \/ InstallDone \/ SetBSPReady
           \/ ReceiveMessage \/ ReceiveError \/ Close \/ Ioctl \/ OpenFull
           \/ OtherCommand \/ DefaultCase \/ ResourceReply \/ ReportErr
           \/ (\E c \in Clients : Send(c)) \/ UNCHANGED vars
  <2>1. UNCHANGED bsp_fdtable
    BY <1>6 DEF CreateMessageQueue, RegisterResourceManager,
       DeviceAssociate, KernelCall, InstallNext, InstallDone, SetBSPReady,
       ReceiveMessage, ReceiveError, Close, Ioctl, CheckFd, OpenFull,
       OtherCommand, DefaultCase, ResourceReply, ReportErr, Send, vars
  <2> QED BY <2>1 DEF KeptStep
<1> QED
  BY <1>1, <1>2, <1>3, <1>4, <1>5, <1>6, SwitchStep
     DEF Next, Server, Startup, Dispatch

(* An open descriptor keeps its permissions until a CLOSE names it. *)
THEOREM DescriptorSafety == Spec => DescriptorKept
<1>1. Init => HeapInv
  BY DEF Init, HeapInv, FreeSlot
<1>2. HeapInv /\ [Next]_vars => HeapInv'
  BY HeapStep
<1>3. TypeOK /\ HeapInv /\ [Next]_vars => [KeptStep]_vars
  BY KeptEachStep
<1>4. Spec => [][KeptStep]_vars
  BY <1>1, <1>2, <1>3, TypeCorrect, PTL DEF Spec
<1> QED BY <1>4 DEF DescriptorKept, KeptStep

----------------------------------------------------------------------------
(* The only way to a reply that keeps the old result is OPEN or CLOSE. *)
FallInv ==
    /\ IoctlNeverSucceeds
    /\ pc = "Free" => msg.command = "CLOSE"

(* Every action keeps it. *)
LEMMA FallStep ==
    ASSUME FallInv, [Next]_vars
    PROVE  FallInv'
<1>0. CaseLabels \cap {"Reply", "Free"} = {}
  BY DEF CaseLabels
<1>1. ASSUME NEW here, NEW next, NEW out, CaseStep(here, next, out)
      PROVE  FallInv'
  <2>1. pc' \in CaseLabels \cup {"Hung", "Undefined"}
    BY <1>1 DEF CaseStep, LibraryCase, SetResult
  <2> QED BY <2>1, <1>0 DEF FallInv, IoctlNeverSucceeds
<1>2. CASE Startup \/ ReceiveMessage \/ ReceiveError \/ ResourceReply
           \/ ReportErr
  <2>1. pc' \notin {"Reply", "Free"}
    BY <1>2 DEF Startup, CreateHeap, CreateMessageQueue,
       RegisterResourceManager, DeviceAssociate, KernelCall, InstallNext,
       InstallDone, SetBSPReady, ReceiveMessage, ReceiveError, ResourceReply,
       ReportErr
  <2> QED BY <2>1 DEF FallInv, IoctlNeverSucceeds
<1>3. CASE Close
  BY <1>3 DEF Close, CheckFd, SetResult, message, FallInv, IoctlNeverSucceeds
<1>4. CASE Ioctl
  <2>1. \/ pc' \in CaseLabels
        \/ pc' = "Reply" /\ result' = IOS_ERROR_NOEXISTS
    BY <1>4, CaseOfLabel DEF Ioctl, CheckFd, SetResult
  <2> QED BY <2>1, <1>0 DEF FallInv, IoctlNeverSucceeds
<1>5. CASE FreeFd
  BY <1>5 DEF FreeFd, message, FallInv, IoctlNeverSucceeds
<1>6. CASE OpenFd \/ OpenFull
  BY <1>6 DEF OpenFd, OpenFull, message, FallInv, IoctlNeverSucceeds
<1>7. CASE OtherCommand \/ DefaultCase
  BY <1>7 DEF OtherCommand, DefaultCase, SetResult, FallInv,
     IoctlNeverSucceeds
<1>8. CASE (\E c \in Clients : Send(c)) \/ UNCHANGED vars
  BY <1>8 DEF Send, message, answer, vars, FallInv, IoctlNeverSucceeds
<1> QED
  BY <1>1, <1>2, <1>3, <1>4, <1>5, <1>6, <1>7, <1>8, SwitchStep
     DEF Next, Server, Dispatch

(* Without breaks in the switch no ioctl is ever answered with success. *)
THEOREM FallThrough == Spec => []IoctlNeverSucceeds
<1>1. Init => FallInv
  BY DEF Init, FallInv, IoctlNeverSucceeds
<1>2. FallInv /\ [Next]_vars => FallInv'
  BY FallStep
<1>3. FallInv => IoctlNeverSucceeds
  BY DEF FallInv
<1> QED BY <1>1, <1>2, <1>3, PTL DEF Spec

----------------------------------------------------------------------------
(* What LookupComplete says of an entity that bspInstall registered. *)
LEMMA InstalledFound ==
    ASSUME LookupComplete, pc \in LoopLabels, NEW i \in DOMAIN Installs
    PROVE  /\ Found(bspEntityList, Installs[i].pName, Installs[i])
           /\ Installs[i] \in Entity /\ WellFormed(Installs[i])
<1>1. Installs[i] \in Entity /\ WellFormed(Installs[i])
  BY ConstantsAssumption
<1> QED BY <1>1 DEF LookupComplete, Found

(* A library call that ends stays in the switch. *)
LEMMA DoneCase ==
    ASSUME NEW here, NEW next, NEW out, LibraryCase(here, next, out),
           out.status = "done"
    PROVE  pc' = next
BY DEF LibraryCase, SetResult

(* Every case of the switch that a sound request enters is left again. *)
LEMMA SoundSwitch ==
    ASSUME TypeOK, LookupComplete, pc \in CaseLabels, Switch, SoundRequest(msg),
           msg.clientFD \in Fds
    PROVE  pc' \in CaseLabels \cup {"Reply"}
<1> DEFINE creds == bsp_fdtable[msg.clientFD].permissions
           list  == bspEntityList
<1>1. PICK i \in DOMAIN Installs :
         /\ Installs[i].pName = msg.args.entityName
         /\ \A j \in DOMAIN Installs[i].pAttributes :
               Installs[i].pAttributes[j].terminated
  BY DEF SoundRequest
<1>2. pc \in LoopLabels
  BY DEF LoopLabels
<1>3. /\ Found(list, msg.args.entityName, Installs[i])
      /\ Installs[i] \in Entity /\ WellFormed(Installs[i])
  BY <1>1, <1>2, InstalledFound
<1>4. msg.args.instance \in Nat /\ msg.args.attributeName # EmptyName
  BY DEF TypeOK, Message, Args, SoundRequest
<1>5. /\ GetEntityVersion(list, msg.args.entityName).status = "done"
      /\ MethodQuery(list, msg.args, creds).status = "done"
      /\ MethodRead(list, msg.args, creds).status = "done"
      /\ MethodWrite(list, msg.args, creds).status = "done"
      /\ MethodInit(list, msg.args, creds).status = "done"
      /\ MethodShutdown(list, msg.args, creds).status = "done"
  BY <1>1, <1>3, <1>4, SoundMethods
<1>6. /\ Returns({"SPECIFIED_SIZE_INVALID"}).status = "done"
      /\ Returns(BSP_RVAL_OK).status = "done"
      /\ Calls(ConsoleRvals, {}).status = "done"
  BY DEF Returns, Calls
<1>7. ASSUME NEW here, NEW next, NEW out, out.status = "done",
             SizedCase(here, next, out)
      PROVE  pc' = next
  <2> DEFINE o == IF msg.args.size # 4 THEN Returns({"SPECIFIED_SIZE_INVALID"})
                                       ELSE out
  <2>1. LibraryCase(here, next, o)
    BY <1>7 DEF SizedCase
  <2>2. o.status = "done"
    BY <1>6, <1>7, Zenon
  <2> HIDE DEF o
  <2> QED BY <2>1, <2>2, DoneCase
<1>8. ASSUME NEW here, NEW next, NEW out, out.status = "done",
             LibraryCase(here, next,
                IF msg.clientFD \in Fds THEN out ELSE DerefsNull)
      PROVE  pc' = next
  <2>1. LibraryCase(here, next, out)
    BY <1>8
  <2> QED BY <1>8, <2>1, DoneCase
<1>9. CaseLabels = {"GET_ENTITY_VERSION", "GET_HARDWARE_VERSION",
                    "GET_CONSOLE_MASK", "QUERY", "READ", "WRITE", "INIT",
                    "SHUTDOWN", "GET_CONSOLE_TYPE", "default"}
  BY DEF CaseLabels
<1>10. CASE GetEntityVersionCase
  <2>1. pc' = "GET_HARDWARE_VERSION"
    BY <1>5, <1>7, <1>10 DEF GetEntityVersionCase
  <2> QED BY <1>9, <2>1
<1>11. CASE GetHardwareVersionCase
  <2>1. pc' = "GET_CONSOLE_MASK"
    BY <1>6, <1>7, <1>11 DEF GetHardwareVersionCase
  <2> QED BY <1>9, <2>1
<1>12. CASE GetConsoleMaskCase
  <2>1. pc' = "QUERY"
    BY <1>6, <1>7, <1>12 DEF GetConsoleMaskCase
  <2> QED BY <1>9, <2>1
<1>13. CASE GetConsoleTypeCase
  <2>1. pc' = "default"
    BY <1>6, <1>7, <1>13 DEF GetConsoleTypeCase
  <2> QED BY <1>9, <2>1
<1>14. CASE QueryCase
  <2>1. pc' = "READ"
    BY <1>5, <1>8, <1>14 DEF QueryCase, MethodCase
  <2> QED BY <1>9, <2>1
<1>15. CASE ReadCase
  <2>1. pc' = "WRITE"
    BY <1>5, <1>8, <1>15 DEF ReadCase, MethodCase
  <2> QED BY <1>9, <2>1
<1>16. CASE WriteCase
  <2>1. pc' = "INIT"
    BY <1>5, <1>8, <1>16 DEF WriteCase, MethodCase
  <2> QED BY <1>9, <2>1
<1>17. CASE InitCase
  <2>1. pc' = "SHUTDOWN"
    BY <1>5, <1>8, <1>17 DEF InitCase, MethodCase
  <2> QED BY <1>9, <2>1
<1>18. CASE ShutdownCase
  <2>1. pc' = "GET_CONSOLE_TYPE"
    BY <1>5, <1>8, <1>18 DEF ShutdownCase, MethodCase
  <2> QED BY <1>9, <2>1
<1>19. CASE DefaultCase
  BY <1>19 DEF DefaultCase, SetResult
<1> QED BY <1>10, <1>11, <1>12, <1>13, <1>14, <1>15, <1>16, <1>17, <1>18, <1>19
        DEF Switch

(* The server ends in undefined behaviour or a loop only under a request   *)
(* that is not sound; and a CLOSE that passed the check of the descriptor  *)
(* has an open one, or one outside the table.                              *)
SoundInv ==
    /\ SoundRequestsSurvive
    /\ pc = "Free" => FdAccepted(msg.clientFD) \/ FdOutside(msg.clientFD)

(* Every action keeps it. *)
LEMMA SoundStep ==
    ASSUME TypeOK, CallInv, LookupComplete, SoundInv, [Next]_vars
    PROVE  SoundInv'
<1>0. /\ "Free" \notin {"Undefined", "Hung", "Reply"}
      /\ CaseLabels \cap {"Free", "Undefined", "Hung"} = {}
      /\ {"Undefined", "Hung"} \subseteq EndLabels
  BY DEF CaseLabels, EndLabels
<1>c. /\ FdOutside(msg.clientFD) => ~SoundRequest(msg)
      /\ FdAccepted(msg.clientFD) => msg.clientFD \in Fds
  <2>1. msg.clientFD \in Int
    BY DEF TypeOK, Message
  <2> QED BY <2>1 DEF FdOutside, FdAccepted, SoundRequest
<1>1. ASSUME pc' \notin {"Free", "Undefined", "Hung"} PROVE SoundInv'
  BY <1>1 DEF SoundInv, SoundRequestsSurvive
<1>2. CASE Startup \/ ReceiveMessage \/ ReceiveError \/ ResourceReply
           \/ ReportErr \/ Ioctl \/ OpenFd \/ OpenFull \/ OtherCommand
  <2>1. pc' \notin {"Free", "Undefined", "Hung"}
    <3>1. CASE Ioctl
      <4>1. pc' \in CaseLabels \cup {"Reply"}
        BY <3>1, CaseOfLabel DEF Ioctl, CheckFd, SetResult
      <4> QED BY <1>0, <4>1
    <3>2. CASE ~Ioctl
      BY <1>2, <3>2 DEF Startup, CreateHeap, CreateMessageQueue,
         RegisterResourceManager, DeviceAssociate, KernelCall, InstallNext,
         InstallDone, SetBSPReady, ReceiveMessage, ReceiveError, ResourceReply,
         ReportErr, OpenFd, OpenFull, OtherCommand, SetResult
    <3> QED BY <3>1, <3>2
  <2> QED BY <1>1, <2>1
<1>3. CASE Close
  BY <1>3 DEF Close, CheckFd, SetResult, SoundInv, SoundRequestsSurvive,
     FdAccepted, FdOutside, message
<1>4. CASE FreeFd
  <2>1. pc = "Free" /\ msg' = msg /\ pc' \in {"Reply", "Undefined"}
        /\ (msg.clientFD \in Fds => pc' = "Reply")
    BY <1>4 DEF FreeFd, message
  <2>2. pc' = "Undefined" => ~SoundRequest(msg)
    BY <1>c, <2>1 DEF SoundInv
  <2> QED BY <2>1, <2>2 DEF SoundInv, SoundRequestsSurvive
<1>5. CASE Switch
  <2>1. /\ pc \in CaseLabels /\ msg' = msg
        /\ pc' \in CaseLabels \cup {"Reply", "Hung", "Undefined"}
    <3>1. DefaultCase => /\ pc = "default" /\ msg' = msg /\ pc' = "Reply"
      BY DEF DefaultCase, SetResult, message
    <3>2. "default" \in CaseLabels
      BY DEF CaseLabels
    <3>3. ASSUME NEW here, NEW next, NEW out, CaseStep(here, next, out)
          PROVE  /\ pc \in CaseLabels /\ msg' = msg
                 /\ pc' \in CaseLabels \cup {"Reply", "Hung", "Undefined"}
      BY <3>3 DEF CaseStep, LibraryCase, SetResult, message
    <3> QED BY <1>5, <3>1, <3>2, <3>3, SwitchStep
  <2>2. SoundRequest(msg) => pc' \in CaseLabels \cup {"Reply"}
    <3>1. FdAccepted(msg.clientFD) \/ FdOutside(msg.clientFD)
      BY <2>1 DEF CallInv
    <3> QED BY <1>5, <1>c, <2>1, <3>1, SoundSwitch
  <2> QED BY <1>0, <2>1, <2>2 DEF SoundInv, SoundRequestsSurvive
<1>6. CASE (\E c \in Clients : Send(c)) \/ UNCHANGED vars
  BY <1>6 DEF Send, message, vars, SoundInv, SoundRequestsSurvive,
     FdAccepted, FdOutside
<1> QED
  BY <1>2, <1>3, <1>4, <1>5, <1>6 DEF Next, Server, Dispatch

(* A request for a named attribute of a registered entity with terminated  *)
(* tables never makes the server hang or leave defined behaviour.          *)
THEOREM SoundCorrect == Spec => []SoundRequestsSurvive
<1>1. Init => SoundInv /\ CallInv
  BY DEF Init, SoundInv, SoundRequestsSurvive, CallInv, CallsPermitted, CaseLabels
<1>2. TypeOK /\ CallInv /\ [Next]_vars => CallInv'
  BY CallStep
<1>3. TypeOK /\ CallInv /\ LookupComplete /\ SoundInv /\ [Next]_vars => SoundInv'
  BY SoundStep
<1>4. SoundInv => SoundRequestsSurvive
  BY DEF SoundInv
<1> QED BY <1>1, <1>2, <1>3, <1>4, TypeCorrect, LookupCorrect, PTL DEF Spec

----------------------------------------------------------------------------
(* An ioctl of a case up to SHUTDOWN with an empty attribute name of an    *)
(* existing instance.                                                      *)
EmptyNameIoctl ==
    /\ msg.command = "IOCTL" /\ msg.arg0 \in 1..8
    /\ msg.args.attributeName = EmptyName
    /\ \E i \in DOMAIN Installs :
          /\ Installs[i].pName = msg.args.entityName
          /\ msg.args.instance < Installs[i].instanceCount

(* It does not get past the SHUTDOWN case, nor round the switch. *)
EmptyInv ==
    EmptyNameIoctl =>
        /\ pc \notin {"GET_CONSOLE_TYPE", "default"}
        /\ pc = "Reply" => ~FdAccepted(msg.clientFD)

(* The case an ioctl enters, for the numbers up to SHUTDOWN. *)
LEMMA EarlyCase ==
    ASSUME NEW n \in 1..8
    PROVE  CaseOf(n) \notin {"GET_CONSOLE_TYPE", "default", "Reply"}
<1>1. n = 1 \/ n = 2 \/ n = 3 \/ n = 4 \/ n = 5 \/ n = 6 \/ n = 7 \/ n = 8
  BY SMT
<1>2. CaseOf(n) \in {"GET_ENTITY_VERSION", "GET_HARDWARE_VERSION",
                    "GET_CONSOLE_MASK", "QUERY", "READ", "WRITE", "INIT",
                    "SHUTDOWN"}
  <2>1. n # 9
    BY SMT
  <2> QED BY <1>1, <2>1, Zenon DEF CaseOf
<1> QED BY <1>2, SMT

(* Where a step of the switch leads. *)
LEMMA SwitchLeads ==
    ASSUME Switch
    PROVE  /\ pc' \in {"GET_HARDWARE_VERSION", "GET_CONSOLE_MASK", "QUERY",
                       "READ", "WRITE", "INIT", "SHUTDOWN", "GET_CONSOLE_TYPE",
                       "default", "Reply", "Hung", "Undefined"}
           /\ pc' = "Reply" => pc = "default"
           /\ pc' = "default" => pc = "GET_CONSOLE_TYPE"
           /\ pc' = "GET_CONSOLE_TYPE" => ShutdownCase
           /\ msg' = msg /\ bsp_fdtable' = bsp_fdtable
BY DEF Switch, GetEntityVersionCase, GetHardwareVersionCase, GetConsoleMaskCase,
   GetConsoleTypeCase, QueryCase, ReadCase, WriteCase, InitCase, ShutdownCase,
   DefaultCase, SizedCase, MethodCase, LibraryCase, SetResult, message

(* Every action keeps EmptyInv. *)
LEMMA EmptyStep ==
    ASSUME TypeOK, LookupComplete, FallInv, EmptyInv, [Next]_vars
    PROVE  EmptyInv'
<1>1. ASSUME pc' \notin {"GET_CONSOLE_TYPE", "default", "Reply"} PROVE EmptyInv'
  BY <1>1 DEF EmptyInv
<1>2. CASE Startup \/ ReceiveMessage \/ ReceiveError \/ ResourceReply \/ ReportErr
  <2>1. pc' \notin {"GET_CONSOLE_TYPE", "default", "Reply"}
    BY <1>2 DEF Startup, CreateHeap, CreateMessageQueue,
       RegisterResourceManager, DeviceAssociate, KernelCall, InstallNext,
       InstallDone, SetBSPReady, ReceiveMessage, ReceiveError, ResourceReply,
       ReportErr
  <2> QED BY <1>1, <2>1
<1>3. CASE Close \/ FreeFd \/ OpenFd \/ OpenFull \/ OtherCommand
  <2>1. msg' = msg /\ msg.command # "IOCTL"
    BY <1>3 DEF Close, CheckFd, FreeFd, OpenFd, OpenFull, OtherCommand, message,
       FallInv
  <2> QED BY <2>1 DEF EmptyInv, EmptyNameIoctl
<1>4. CASE Ioctl
  <2> SUFFICES ASSUME EmptyNameIoctl'
               PROVE  /\ pc' \notin {"GET_CONSOLE_TYPE", "default"}
                      /\ pc' = "Reply" => ~FdAccepted(msg.clientFD)'
    BY DEF EmptyInv
  <2>1. /\ msg' = msg /\ bsp_fdtable' = bsp_fdtable
        /\ \/ /\ FdRejected(msg.clientFD) \/ FdOutside(msg.clientFD)
              /\ pc' = "Reply"
           \/ pc' = CaseOf(msg.arg0)
    BY <1>4 DEF Ioctl, CheckFd, SetResult, message
  <2>2. CaseOf(msg.arg0) \notin {"GET_CONSOLE_TYPE", "default", "Reply"}
    BY <2>1, EarlyCase DEF EmptyNameIoctl
  <2>3. FdRejected(msg.clientFD) \/ FdOutside(msg.clientFD)
          => ~FdAccepted(msg.clientFD)
    <3>1. msg.clientFD \in Int /\ NumFds \in Nat
      BY ConstantsAssumption DEF TypeOK, Message
    <3> QED BY <3>1 DEF FdRejected, FdOutside, FdAccepted, Fds
  <2>4. FdAccepted(msg.clientFD)' <=> FdAccepted(msg.clientFD)
    BY <2>1 DEF FdAccepted
  <2> QED BY <2>1, <2>2, <2>3, <2>4
<1>5. CASE Switch
  <2> SUFFICES ASSUME EmptyNameIoctl'
               PROVE  /\ pc' \notin {"GET_CONSOLE_TYPE", "default"}
                      /\ pc' = "Reply" => ~FdAccepted(msg.clientFD)'
    BY DEF EmptyInv
  <2>1. EmptyNameIoctl
    BY <1>5, SwitchLeads DEF EmptyNameIoctl
  <2>2. pc \notin {"GET_CONSOLE_TYPE", "default"}
    BY <2>1 DEF EmptyInv
  <2>3. ~(ShutdownCase /\ pc' = "GET_CONSOLE_TYPE")
    <3> SUFFICES ASSUME ShutdownCase PROVE pc' # "GET_CONSOLE_TYPE"
      OBVIOUS
    <3> DEFINE creds == bsp_fdtable[msg.clientFD].permissions
               good  == MethodShutdown(bspEntityList, msg.args, creds)
               out   == IF msg.clientFD \in Fds THEN good ELSE DerefsNull
    <3>1. PICK i \in DOMAIN Installs :
            /\ Installs[i].pName = msg.args.entityName
            /\ msg.args.instance < Installs[i].instanceCount
      BY <2>1 DEF EmptyNameIoctl
    <3>2. LibraryCase("SHUTDOWN", "GET_CONSOLE_TYPE", out)
      BY DEF ShutdownCase, MethodCase
    <3>3. pc \in LoopLabels
      BY <3>2 DEF LibraryCase, LoopLabels, CaseLabels
    <3>4. /\ Found(bspEntityList, msg.args.entityName, Installs[i])
          /\ Installs[i] \in Entity
      BY <3>1, <3>3, InstalledFound
    <3>5. msg.args.instance \in Nat /\ msg.args.attributeName = EmptyName
      BY <2>1 DEF TypeOK, Message, Args, EmptyNameIoctl
    <3>6. good.status # "done"
      BY <3>1, <3>4, <3>5, EmptyNameDerefs
    <3>7. DerefsNull.status # "done"
      BY DEF DerefsNull
    <3> HIDE DEF good
    <3>8. out.status # "done"
      BY <3>6, <3>7, Zenon
    <3> HIDE DEF out
    <3> QED BY <3>2, <3>8 DEF LibraryCase
  <2> QED BY <1>5, <2>2, <2>3, SwitchLeads
<1>6. CASE (\E c \in Clients : Send(c)) \/ UNCHANGED vars
  BY <1>6 DEF Send, message, vars, EmptyInv, EmptyNameIoctl, FdAccepted
<1> QED
  BY <1>2, <1>3, <1>4, <1>5, <1>6 DEF Next, Server, Dispatch

(* The "special case" of bspMethodInit is never answered: every ioctl that *)
(* could ask for it falls into a case that does not return.                *)
THEOREM EmptyNameCorrect == Spec => []EmptyNameNeverAnswered
<1>1. Init => FallInv /\ EmptyInv
  BY DEF Init, FallInv, IoctlNeverSucceeds, EmptyInv
<1>2. FallInv /\ [Next]_vars => FallInv'
  BY FallStep
<1>3. TypeOK /\ LookupComplete /\ FallInv /\ EmptyInv /\ [Next]_vars => EmptyInv'
  BY EmptyStep
<1>4. EmptyInv => EmptyNameNeverAnswered
  BY DEF EmptyInv, EmptyNameIoctl, EmptyNameNeverAnswered
<1> QED BY <1>1, <1>2, <1>3, <1>4, TypeCorrect, LookupCorrect, PTL DEF Spec
============================================================================
