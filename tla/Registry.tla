------------------------------ MODULE Registry ------------------------------
(***************************************************************************)
(* The type and extension registries (src/pkg/msgpack/types.go, ext.go,    *)
(* and the getEncoder/getDecoder of encode_value.go and decode_value.go):  *)
(* three global sync.Maps that goroutines read and fill without a lock.    *)
(* typeEncMap and typeDecMap hold registrations and, in the same slots,    *)
(* the functions that lookups computed; every step below is one Load,      *)
(* Store or Delete.                                                        *)
(*                                                                         *)
(* An encoder or decoder function is named for what it does to a value: it *)
(* writes or reads an extension, calls a hook, calls a function passed to  *)
(* Register, or treats the value by its kind.  A wrapper that follows a    *)
(* pointer or takes an address first does what the function inside does.   *)
(***************************************************************************)
EXTENDS Integers

CONSTANTS
  Goroutines,
  Values,      \* the Go types that are not pointers
  Pointers,    \* pointer types,
  ElemOf,      \* and the value type that each points to
  Hooks,       \* the hooks in a type's method set
  Ids,         \* extension ids that the program registers
  TimeId, TimeType,  \* id -1 and time.Time, registered by time.go's init
  Registrable, \* types that the program registers under an id
  UserTypes,   \* types that the program passes to Register
  Exclusive,   \* whether registrations keep away from lookups and each other
  MaxOps       \* bound on the calls begun

Types == Values \cup Pointers
Sides == {"enc", "dec"}
None == "none"
AllIds == Ids \cup {TimeId}
HookNames == {"custom", "marshal", "binary", "text"}

ASSUME RegistryAssumption ==
  /\ Values \cap Pointers = {} /\ None \notin Types
  /\ ElemOf \in [Pointers -> Values]
  /\ \A p, q \in Pointers : ElemOf[p] = ElemOf[q] => p = q
  /\ Hooks \in [Types -> SUBSET HookNames]
  /\ \A p \in Pointers : Hooks[ElemOf[p]] \subseteq Hooks[p]
  /\ TimeId \notin Ids /\ TimeType \in Values
  /\ Registrable \subseteq Types \ {TimeType} /\ UserTypes \subseteq Values \ {TimeType}
  /\ Exclusive \in BOOLEAN
  /\ MaxOps \in Nat

VARIABLES
  funcs,     \* typeEncMap and typeDecMap at types
  idTypes,   \* the same maps at extension ids
  extTypes,  \* the type of an id's extInfo
  reg,       \* the extension registrations, as the completed calls made them
  user,      \* the types for which Register has stored a function
  task,      \* what each goroutine is doing
  ops        \* calls begun

vars == <<funcs, idTypes, extTypes, reg, user, task, ops>>

Base(t) == IF t \in Pointers THEN ElemOf[t] ELSE t

Ext(id) == <<"ext", id>>
Hook(h) == <<"hook", h>>
Kind == <<"kind", None>>
User == <<"user", None>>
Absent == <<"absent", None>>
Funcs == {Ext(i) : i \in AllIds} \cup {Hook(h) : h \in HookNames} \cup {Kind, User}

(* A goroutine is idle or in a call; bases are the value types (its own or  *)
(* those its pointers point to) that the call is about.                     *)
Idle == [op |-> "idle", bases |-> {}]
Busy(g) == task[g].op \in {"reg", "user"}

Begin(g, new) ==
  /\ task[g] = Idle /\ ops < MaxOps
  /\ ops' = ops + 1
  /\ task' = [task EXCEPT ![g] = new]
  /\ UNCHANGED <<funcs, idTypes, extTypes, reg, user>>

-----------------------------------------------------------------------------
(***************************************************************************)
(* Registration of extensions.  A call works on the encoder's maps, then   *)
(* on the decoder's (s): it unregisters the id and stores the new entries. *)
(***************************************************************************)
Held(id) == IF reg[id] = None THEN {} ELSE {Base(reg[id])}

(* Without Exclusive a goroutine calls what it likes when it likes.  With   *)
(* it, no registration of a type or an id runs beside a use or another      *)
(* registration of it, a type has one registration at a time, and Register  *)
(* comes before any use of the type.                                        *)
Free(bases) == Exclusive => \A h \in Goroutines : task[h].bases \cap bases = {}
FreeId(id) == Exclusive => \A h \in Goroutines : task[h].op = "reg" => task[h].id # id
OneRegistration(t, ids) ==
  Exclusive => (\A s \in Sides : Base(t) \notin user[s]) /\ (\A j \in ids : Base(t) \notin Held(j))

ExtCall(id, t, bases) ==
  [op |-> "reg", bases |-> bases, id |-> id, t |-> t, s |-> "enc", pc |-> "load", typ |-> None]

RegisterExt(g, id, t) ==
  LET bases == {Base(t)} \cup Held(id)
  IN /\ Free(bases) /\ FreeId(id) /\ OneRegistration(t, AllIds \ {id})
     /\ Begin(g, ExtCall(id, t, bases))

UnregisterExt(g, id) ==
  /\ Free(Held(id)) /\ FreeId(id)
  /\ Begin(g, ExtCall(id, None, Held(id)))

InCall(g, op, pc) == task[g].op = op /\ task[g].pc = pc
Set(g, new) == task' = [task EXCEPT ![g] = new]
GoOn(g, pc) == Set(g, [task[g] EXCEPT !.pc = pc]) /\ reg' = reg

(* One side is done: the decoder's comes after the encoder's, then the call *)
(* returns.                                                                 *)
SideDone(g) ==
  IF task[g].s = "enc"
  THEN Set(g, [task[g] EXCEPT !.s = "dec", !.pc = "load"]) /\ reg' = reg
  ELSE Set(g, Idle) /\ reg' = [reg EXCEPT ![task[g].id] = task[g].t]

(* unregisterExtEncoder or unregisterExtDecoder returns, to RegisterExt...  *)
(* or to UnregisterExt.                                                     *)
Unregistered(g) ==
  IF task[g].t = None THEN SideDone(g)
  ELSE GoOn(g, IF task[g].s = "dec" THEN "storeExt" ELSE "storeId")

(* unregisterExtEncoder and unregisterExtDecoder.                           *)
LoadId(g) ==
  /\ InCall(g, "reg", "load")
  /\ LET typ == idTypes[task[g].s][task[g].id]
     IN \/ typ = None /\ Unregistered(g)
        \/ /\ typ # None
           /\ Set(g, [task[g] EXCEPT !.typ = typ, !.pc = "deleteId"]) /\ reg' = reg
  /\ UNCHANGED <<funcs, idTypes, extTypes, user, ops>>

DeleteId(g) ==
  /\ InCall(g, "reg", "deleteId")
  /\ idTypes' = [idTypes EXCEPT ![task[g].s][task[g].id] = None]
  /\ GoOn(g, IF task[g].s = "dec" THEN "deleteExt" ELSE "deleteType")
  /\ UNCHANGED <<funcs, extTypes, user, ops>>

DeleteExt(g) ==
  /\ InCall(g, "reg", "deleteExt")
  /\ extTypes' = [extTypes EXCEPT ![task[g].id] = None]
  /\ GoOn(g, "deleteType")
  /\ UNCHANGED <<funcs, idTypes, user, ops>>

(* Mutant: the element type of a pointer keeps its function.                *)
DeleteType_Only(g) ==
  /\ InCall(g, "reg", "deleteType")
  /\ funcs' = [funcs EXCEPT ![task[g].s][task[g].typ] = Absent]
  /\ Unregistered(g)
  /\ UNCHANGED <<idTypes, extTypes, user, ops>>

DeleteType(g) ==
  /\ InCall(g, "reg", "deleteType")
  /\ funcs' = [funcs EXCEPT ![task[g].s][task[g].typ] = Absent]
  /\ IF task[g].typ \in Pointers THEN GoOn(g, "deleteElem") ELSE Unregistered(g)
  /\ UNCHANGED <<idTypes, extTypes, user, ops>>

DeleteElem(g) ==
  /\ InCall(g, "reg", "deleteElem")
  /\ funcs' = [funcs EXCEPT ![task[g].s][ElemOf[task[g].typ]] = Absent]
  /\ Unregistered(g)
  /\ UNCHANGED <<idTypes, extTypes, user, ops>>

(* RegisterExtEncoder and RegisterExtDecoder, once the id is unregistered.  *)
StoreExt(g) ==
  /\ InCall(g, "reg", "storeExt")
  /\ extTypes' = [extTypes EXCEPT ![task[g].id] = task[g].t]
  /\ GoOn(g, "storeId")
  /\ UNCHANGED <<funcs, idTypes, user, ops>>

StoreId(g) ==
  /\ InCall(g, "reg", "storeId")
  /\ idTypes' = [idTypes EXCEPT ![task[g].s][task[g].id] = task[g].t]
  /\ GoOn(g, "storeType")
  /\ UNCHANGED <<funcs, extTypes, user, ops>>

StoreType(g) ==
  /\ InCall(g, "reg", "storeType")
  /\ funcs' = [funcs EXCEPT ![task[g].s][task[g].t] = Ext(task[g].id)]
  /\ IF task[g].t \in Pointers THEN GoOn(g, "storeElem") ELSE SideDone(g)
  /\ UNCHANGED <<idTypes, extTypes, user, ops>>

StoreElem(g) ==
  /\ InCall(g, "reg", "storeElem")
  /\ funcs' = [funcs EXCEPT ![task[g].s][ElemOf[task[g].t]] = Ext(task[g].id)]
  /\ SideDone(g)
  /\ UNCHANGED <<idTypes, extTypes, user, ops>>

(* Register, with an encoder, a decoder or both.                            *)
Register(g, t, sides) ==
  /\ Free({t}) /\ OneRegistration(t, AllIds)
  /\ Exclusive => \A s \in sides, u \in Types : Base(u) = t => funcs[s][u] = Absent
  /\ Begin(g, [op |-> "user", bases |-> {t}, t |-> t, sides |-> sides])

StoreUser(g) ==
  /\ task[g].op = "user"
  /\ \/ /\ task[g].sides = {} /\ Set(g, Idle)
        /\ UNCHANGED <<funcs, user>>
     \/ \E s \in task[g].sides :
          /\ s = "dec" => "enc" \notin task[g].sides
          /\ funcs' = [funcs EXCEPT ![s][task[g].t] = User]
          /\ user' = [user EXCEPT ![s] = @ \cup {task[g].t}]
          /\ Set(g, [task[g] EXCEPT !.sides = @ \ {s}])
  /\ UNCHANGED <<idTypes, extTypes, reg, ops>>

-----------------------------------------------------------------------------
(***************************************************************************)
(* Lookup: getEncoder and getDecoder.  A call for a pointer type may call  *)
(* itself for the element type; at is the type of the innermost call.      *)
(***************************************************************************)
Priority == <<"custom", "marshal", "binary", "text">>
Highest(hs) == Priority[CHOOSE k \in 1 .. 4 :
                 Priority[k] \in hs /\ \A j \in 1 .. (k - 1) : Priority[j] \notin hs]

(* _getEncoder and _getDecoder without the pointer's element: the type's    *)
(* own hooks, then those of its pointer type, then its kind.                *)
PtrHooks(t) == UNION {Hooks[p] : p \in {q \in Pointers : ElemOf[q] = t}}
compute(t) ==
  IF Hooks[t] # {} THEN Hook(Highest(Hooks[t]))
  ELSE IF t \in Values /\ PtrHooks(t) # {} THEN Hook(Highest(PtrHooks(t)))
  ELSE Kind

(* A goroutine needs the function of a type to encode or decode a value.    *)
Get(g, s, t) ==
  /\ Exclusive => \A h \in Goroutines : Busy(h) => Base(t) \notin task[h].bases
  /\ Begin(g, [op |-> "get", bases |-> {Base(t)}, s |-> s, typ |-> t, at |-> t, pc |-> "load", f |-> Absent])

GoTo(g, at, pc, f) == Set(g, [task[g] EXCEPT !.at = at, !.pc = pc, !.f = f])

(* The innermost call returns f: to the caller, or to the ptrEncoderFunc or *)
(* ptrValueDecoder of the pointer type, which wraps it.                     *)
Return(g, f) ==
  IF task[g].at = task[g].typ THEN GoTo(g, task[g].typ, "use", f)
  ELSE GoTo(g, task[g].typ, "store", f)

LoadType(g) ==
  /\ InCall(g, "get", "load")
  /\ LET at == task[g].at
         f == funcs[task[g].s][at]
     IN \/ f # Absent /\ Return(g, f)
        \/ f = Absent /\ at \in Pointers /\ GoTo(g, at, "elem", Absent)
        \/ f = Absent /\ at \in Values /\ GoTo(g, at, "store", compute(at))
  /\ UNCHANGED <<funcs, idTypes, extTypes, reg, user, ops>>

(* Mutant: the pointer's own hooks come before the element's entry.         *)
LoadElem_HooksFirst(g) ==
  /\ InCall(g, "get", "elem")
  /\ LET at == task[g].at
     IN IF Hooks[at] = {} THEN GoTo(g, ElemOf[at], "load", Absent) ELSE GoTo(g, at, "store", compute(at))
  /\ UNCHANGED <<funcs, idTypes, extTypes, reg, user, ops>>

(* A pointer type asks for its element's function if there is an entry for  *)
(* the element, or if the pointer type has no hook.                         *)
LoadElem(g) ==
  /\ InCall(g, "get", "elem")
  /\ LET at == task[g].at
     IN IF funcs[task[g].s][ElemOf[at]] # Absent \/ Hooks[at] = {}
        THEN GoTo(g, ElemOf[at], "load", Absent) ELSE GoTo(g, at, "store", compute(at))
  /\ UNCHANGED <<funcs, idTypes, extTypes, reg, user, ops>>

StoreFunc(g) ==
  /\ InCall(g, "get", "store")
  /\ funcs' = [funcs EXCEPT ![task[g].s][task[g].at] = task[g].f]
  /\ Return(g, task[g].f)
  /\ UNCHANGED <<idTypes, extTypes, reg, user, ops>>

(* The function is called and the goroutine goes on.                        *)
Use(g) ==
  /\ InCall(g, "get", "use")
  /\ Set(g, Idle)
  /\ UNCHANGED <<funcs, idTypes, extTypes, reg, user, ops>>

-----------------------------------------------------------------------------
Init ==
  /\ funcs = [s \in Sides |-> [t \in Types |-> IF t = TimeType THEN Ext(TimeId) ELSE Absent]]
  /\ idTypes = [s \in Sides |-> [i \in AllIds |-> IF i = TimeId THEN TimeType ELSE None]]
  /\ extTypes = [i \in AllIds |-> IF i = TimeId THEN TimeType ELSE None]
  /\ reg = [i \in AllIds |-> IF i = TimeId THEN TimeType ELSE None]
  /\ user = [s \in Sides |-> {}]
  /\ task = [g \in Goroutines |-> Idle]
  /\ ops = 0

Call(g) ==
  \/ \E id \in Ids, t \in Registrable : RegisterExt(g, id, t)
  \/ \E id \in Ids : UnregisterExt(g, id)
  \/ \E t \in UserTypes, sides \in SUBSET Sides : Register(g, t, sides)
  \/ \E s \in Sides, t \in Types : Get(g, s, t)

Step(g) ==
  \/ LoadId(g) \/ DeleteId(g) \/ DeleteExt(g) \/ DeleteType(g) \/ DeleteElem(g)
  \/ StoreExt(g) \/ StoreId(g) \/ StoreType(g) \/ StoreElem(g)
  \/ StoreUser(g)
  \/ LoadType(g) \/ LoadElem(g) \/ StoreFunc(g) \/ Use(g)

Next == \E g \in Goroutines : Call(g) \/ Step(g)

Spec == Init /\ [][Next]_vars

-----------------------------------------------------------------------------
(***************************************************************************)
(* Properties                                                              *)
(***************************************************************************)
Registered == Registrable \cup {TimeType}
Pcs == {"load", "deleteId", "deleteExt", "deleteType", "deleteElem",
        "storeExt", "storeId", "storeType", "storeElem"}
ExtCalls ==
  [op : {"reg"}, bases : SUBSET Values, id : Ids, t : Registrable \cup {None}, s : Sides,
   pc : Pcs, typ : Registered \cup {None}]
UserCalls == [op : {"user"}, bases : SUBSET Values, t : UserTypes, sides : SUBSET Sides]
GetCalls ==
  {c \in [op : {"get"}, bases : SUBSET Values, s : Sides, typ : Types, at : Types,
          pc : {"load", "elem", "store", "use"}, f : Funcs \cup {Absent}] :
    c.pc = "elem" => c.at \in Pointers}

(* Types.                                                                   *)
TypeOK ==
  /\ funcs \in [Sides -> [Types -> Funcs \cup {Absent}]]
  /\ idTypes \in [Sides -> [AllIds -> Registered \cup {None}]]
  /\ extTypes \in [AllIds -> Registered \cup {None}]
  /\ reg \in [AllIds -> Registered \cup {None}]
  /\ user \in [Sides -> SUBSET UserTypes]
  /\ task \in [Goroutines -> {Idle} \cup ExtCalls \cup UserCalls \cup GetCalls]
  /\ ops \in 0 .. MaxOps

(* What the registrations and the method sets say of a type: the extension  *)
(* it or its pointer is registered under, the registered functions, else    *)
(* the hook of highest priority, else its kind.                             *)
Meaning(s, t) ==
  LET ids == {i \in AllIds : Base(t) \in Held(i)}
  IN IF ids # {} THEN Ext(CHOOSE i \in ids : TRUE)
     ELSE IF Base(t) \in user[s] THEN User
     ELSE compute(t)

(* A lookup gives the function that the registrations and the method sets   *)
(* call for, whatever lookups filled the maps before and whatever lookups   *)
(* and registrations of other types run beside it.                          *)
Transparent ==
  \A g \in Goroutines : InCall(g, "get", "use") => task[g].f = Meaning(task[g].s, task[g].typ)

Quiet == \A g \in Goroutines : task[g].op # "reg"

(* When no registration is in progress the three maps agree: an id has the  *)
(* same type in all of them, and that type (and its element) has the id's   *)
(* encoder and decoder; no type has the functions of an id that is not its. *)
MapsAgree ==
  Quiet =>
    /\ \A i \in AllIds, s \in Sides :
         /\ idTypes[s][i] = reg[i] /\ extTypes[i] = reg[i]
         /\ reg[i] # None => \A t \in {reg[i], Base(reg[i])} : funcs[s][t] = Ext(i)
    /\ \A s \in Sides, t \in Types, i \in AllIds : funcs[s][t] = Ext(i) => Base(t) \in Held(i)

(* A registration that has returned stays in force: with nothing running,   *)
(* a registered type encodes and decodes as its extension.                  *)
InForce ==
  (\A g \in Goroutines : task[g] = Idle) =>
    \A i \in AllIds, s \in Sides : reg[i] # None => funcs[s][reg[i]] = Ext(i)
=============================================================================
