--------------------------- MODULE RegistryProofs ---------------------------
(***************************************************************************)
(* Proofs about the registries: the types for any use of them, and that    *)
(* the maps agree and lookups are transparent for a program that keeps     *)
(* registrations away from lookups.                                        *)
(***************************************************************************)
EXTENDS Registry, TLAPS

(* What a program has to observe: registrations keep away from uses of the  *)
(* type and from each other, types are registered by their pointers, as in  *)
(* RegisterExt(id, new(T)), and a pointer type has no hook of higher     *)
(* priority than its element's.  Each part is needed (README).              *)
Disciplined ==
  /\ Exclusive
  /\ Registrable \subseteq Pointers
  /\ \A p \in Pointers : Hooks[ElemOf[p]] # {} => Highest(Hooks[p]) = Highest(Hooks[ElemOf[p]])

(* Held and Meaning for registrations r and user functions u.               *)
HeldIn(r, i) == IF r[i] = None THEN {} ELSE {Base(r[i])}
Holders(r, v) == {i \in AllIds : v \in HeldIn(r, i)}
MeaningIn(r, u, s, t) ==
  IF Holders(r, Base(t)) # {} THEN Ext(CHOOSE i \in Holders(r, Base(t)) : TRUE)
  ELSE IF Base(t) \in u[s] THEN User
  ELSE compute(t)

-----------------------------------------------------------------------------
(***************************************************************************)
(* The inductive invariant                                                 *)
(***************************************************************************)
(* Steps of a registration up to the one that deletes or stores an entry.   *)
ToDeleteId == {"load", "deleteId"}
ToDeleteExt == ToDeleteId \cup {"deleteExt"}
ToDeleteType == ToDeleteExt \cup {"deleteType"}
ToDeleteElem == ToDeleteType \cup {"deleteElem"}
ToStoreExt == ToDeleteElem \cup {"storeExt"}
ToStoreId == ToStoreExt \cup {"storeId"}
ToStoreType == ToStoreId \cup {"storeType"}
ToStoreElem == ToStoreType \cup {"storeElem"}

(* Where the call c is on side s.                                           *)
Place(c, s) == IF c.s = s THEN c.pc ELSE IF c.s = "enc" THEN "load" ELSE "done"

(* A registration's own state.                                              *)
Shape(c, r) ==
  /\ c.bases = (IF c.t = None THEN {} ELSE {Base(c.t)}) \cup HeldIn(r, c.id)
  /\ c.pc \in {"deleteId", "deleteExt", "deleteType", "deleteElem"} => c.typ = r[c.id] /\ c.typ # None
  /\ c.pc \in {"storeExt", "storeId", "storeType", "storeElem"} => c.t # None
  /\ c.pc \in {"deleteExt", "storeExt"} => c.s = "dec"

(* What a registration of t, or none, for the id of old has left in a       *)
(* side's maps when it is at p, and in the extInfo when it is at p there.   *)
OnSide(p, id, t, old, f, i) ==
  /\ p \in ToDeleteId => i[id] = old
  /\ p \notin ToDeleteId /\ t = None => i[id] = None
  /\ p \notin ToStoreId /\ t # None => i[id] = t
  /\ p \in ToDeleteType /\ old # None => f[old] = Ext(id)
  /\ p \notin ToDeleteType /\ old \notin {None, t} => f[old] = Absent
  /\ p \notin ToStoreType /\ t # None => f[t] = Ext(id)
  /\ p \in ToDeleteElem /\ old # None => f[Base(old)] = Ext(id)
  /\ p \notin ToDeleteElem /\ old \notin {None, t} => f[Base(old)] = Absent
  /\ p \notin ToStoreElem /\ t # None => f[Base(t)] = Ext(id)
OnExt(p, id, t, old, E) ==
  /\ p \in ToDeleteExt => E[id] = old
  /\ p \notin ToDeleteExt /\ t = None => E[id] = None
  /\ p \notin ToStoreExt /\ t # None => E[id] = t

Midway(c, F, I, E, r) ==
  /\ \A s \in Sides : OnSide(Place(c, s), c.id, c.t, r[c.id], F[s], I[s])
  /\ OnExt(Place(c, "dec"), c.id, c.t, r[c.id], E)

(* A Register: it finds no entry for the type.                              *)
Fresh(c, F) ==
  /\ c.bases = {c.t}
  /\ \A s \in c.sides : \A x \in Types : Base(x) = c.t => F[s][x] = Absent

(* A lookup: what it has found is right.                                    *)
Found(c, r, u) ==
  /\ c.bases = {Base(c.typ)}
  /\ c.at \in {c.typ, Base(c.typ)}
  /\ c.pc = "elem" => c.at = c.typ /\ c.at \in Pointers
  /\ c.pc = "store" => c.f = MeaningIn(r, u, c.s, c.at)
  /\ c.pc = "use" => c.f = MeaningIn(r, u, c.s, c.typ)

CallOK(c, F, I, E, r, u) ==
  /\ c.op = "reg" => Shape(c, r) /\ Midway(c, F, I, E, r)
  /\ c.op = "user" => Fresh(c, F)
  /\ c.op = "get" => Found(c, r, u)

(* Every call in progress.                                                  *)
Calls == \A g \in Goroutines : CallOK(task[g], funcs, idTypes, extTypes, reg, user)

(* A registration is alone with its types and its id.                       *)
Apart ==
  \A g, h \in Goroutines : g # h /\ Busy(g) =>
    /\ task[g].bases \cap task[h].bases = {}
    /\ task[g].op = "reg" /\ task[h].op = "reg" => task[g].id # task[h].id

(* A type has one registration, in force or in progress; time.Time has its  *)
(* own.                                                                     *)
Sole ==
  /\ \A i, j \in AllIds : i # j => HeldIn(reg, i) \cap HeldIn(reg, j) = {}
  /\ \A i \in AllIds, s \in Sides : HeldIn(reg, i) \cap user[s] = {}
  /\ reg[TimeId] = TimeType /\ \A i \in Ids : reg[i] \in Registrable \cup {None}
  /\ \A g \in Goroutines : task[g].op = "reg" /\ task[g].t # None =>
       /\ \A j \in AllIds : j # task[g].id => Base(task[g].t) \notin HeldIn(reg, j)
       /\ \A s \in Sides : Base(task[g].t) \notin user[s]
  /\ \A g \in Goroutines : task[g].op = "user" => \A j \in AllIds : task[g].t \notin HeldIn(reg, j)

(* The maps agree on an id that no call registers.                          *)
Settled(i) == \A g \in Goroutines : task[g].op = "reg" => task[g].id # i
Agree ==
  \A i \in AllIds : Settled(i) =>
    \A s \in Sides :
      /\ idTypes[s][i] = reg[i] /\ extTypes[i] = reg[i]
      /\ reg[i] # None => funcs[s][reg[i]] = Ext(i) /\ funcs[s][Base(reg[i])] = Ext(i)

(* What the maps hold for a type that no call registers is right.           *)
Still(x) == \A g \in Goroutines : task[g].op = "reg" => Base(x) \notin task[g].bases
Cached ==
  \A s \in Sides : \A x \in Types : Still(x) =>
    /\ funcs[s][x] \in {Absent, MeaningIn(reg, user, s, x)}
    /\ x \in user[s] => funcs[s][x] = User

(* The inductive invariant.                                                 *)
IInv == TypeOK /\ Calls /\ Apart /\ Sole /\ Agree /\ Cached

-----------------------------------------------------------------------------
(***************************************************************************)
(* Types                                                                   *)
(***************************************************************************)
Tasks == {Idle} \cup ExtCalls \cup UserCalls \cup GetCalls

(* The value type of a type.                                                *)
LEMMA BaseType ==
  ASSUME NEW t \in Types
  PROVE  Base(t) \in Values
BY RegistryAssumption DEF Base, Types

(* A set of hooks has one of highest priority.                              *)
LEMMA HighestType ==
  ASSUME NEW hs \in SUBSET HookNames, hs # {}
  PROVE  Highest(hs) \in HookNames
<1> DEFINE First(k) == Priority[k] \in hs /\ \A j \in 1 .. (k - 1) : Priority[j] \notin hs
<1>1. Priority[1] = "custom" /\ Priority[2] = "marshal" /\ Priority[3] = "binary" /\ Priority[4] = "text"
  BY DEF Priority
<1>2. \E k \in 1 .. 4 : First(k)
  <2>1. CASE "custom" \in hs
    <3>1. First(1)
      BY <1>1, <2>1
    <3> QED BY <3>1
  <2>2. CASE "custom" \notin hs /\ "marshal" \in hs
    <3>1. First(2)
      BY <1>1, <2>2
    <3> QED BY <3>1
  <2>3. CASE "custom" \notin hs /\ "marshal" \notin hs /\ "binary" \in hs
    <3>1. First(3)
      BY <1>1, <2>3
    <3> QED BY <3>1
  <2>4. CASE "custom" \notin hs /\ "marshal" \notin hs /\ "binary" \notin hs
    <3>1. "text" \in hs
      BY <2>4 DEF HookNames
    <3>2. First(4)
      BY <1>1, <2>4, <3>1
    <3> QED BY <3>2
  <2> QED BY <2>1, <2>2, <2>3, <2>4
<1>3. (CHOOSE k \in 1 .. 4 : First(k)) \in 1 .. 4
  BY <1>2
<1>4. \A k \in 1 .. 4 : Priority[k] \in HookNames
  BY <1>1 DEF HookNames
<1> QED BY <1>3, <1>4 DEF Highest

(* The functions that the code stores.                                      *)
LEMMA FuncTypes ==
  /\ \A i \in AllIds : Ext(i) \in Funcs
  /\ User \in Funcs
  /\ \A t \in Types : compute(t) \in Funcs
<1>1. ASSUME NEW t \in Types PROVE compute(t) \in Funcs
  <2>1. Hooks[t] \in SUBSET HookNames /\ PtrHooks(t) \in SUBSET HookNames
    BY RegistryAssumption DEF PtrHooks, Types
  <2> QED BY <2>1, HighestType DEF compute, Funcs
<1> QED BY <1>1 DEF Funcs

(* The calls by their operations.                                           *)
LEMMA TaskTypes ==
  ASSUME TypeOK, NEW g \in Goroutines
  PROVE  /\ task[g] \in Tasks
         /\ task[g].op = "reg" => task[g] \in ExtCalls
         /\ task[g].op = "user" => task[g] \in UserCalls
         /\ task[g].op = "get" => task[g] \in GetCalls
         /\ task[g].op \notin {"reg", "user", "get"} => task[g] = Idle
         /\ task[g] = Idle => task[g].op = "idle" /\ task[g].bases = {}
<1>1. task[g] \in Tasks
  BY DEF TypeOK, Tasks
<1>2. Idle.op = "idle" /\ Idle.bases = {}
  BY DEF Idle
<1>3. /\ \A c \in ExtCalls : c.op = "reg"
      /\ \A c \in UserCalls : c.op = "user"
      /\ \A c \in GetCalls : c.op = "get"
  BY DEF ExtCalls, UserCalls, GetCalls
<1> QED BY <1>1, <1>2, <1>3 DEF Tasks

(* A step of g that makes its call c.                                       *)
LEMMA SetType ==
  ASSUME TypeOK, NEW g \in Goroutines, NEW c, Set(g, c)
  PROVE  /\ task'[g] = c /\ \A h \in Goroutines : h # g => task'[h] = task[h]
         /\ c \in Tasks => task' \in [Goroutines -> Tasks]
BY DEF Set, TypeOK, Tasks

(* A call begins.                                                           *)
LEMMA BeginType ==
  ASSUME TypeOK, NEW g \in Goroutines, NEW c \in Tasks, Begin(g, c)
  PROVE  TypeOK'
<1>1. task' \in [Goroutines -> Tasks]
  BY SetType DEF Begin, Set
<1>2. ops' \in 0 .. MaxOps
  BY RegistryAssumption DEF Begin, TypeOK
<1> QED BY <1>1, <1>2 DEF Begin, TypeOK, Tasks

(* How a registration goes on: c is the call after the step; pc is done     *)
(* when the call returns.                                                   *)
Moved(b, c) ==
  /\ c \in [op : {"reg"}, bases : SUBSET Values, id : Ids, t : Registrable \cup {None}, s : Sides,
            pc : Pcs \cup {"done"}, typ : Registered \cup {None}]
  /\ c.bases = b.bases /\ c.id = b.id /\ c.t = b.t
Lands(g, c) ==
  \/ c.pc \in Pcs /\ task'[g] = c /\ reg' = reg
  \/ c.pc = "done" /\ c.s = "dec" /\ task'[g] = Idle /\ reg' = [reg EXCEPT ![c.id] = c.t]
Goes(g, c) ==
  /\ Moved(task[g], c) /\ Lands(g, c)
  /\ task' \in [Goroutines -> Tasks]
  /\ \A h \in Goroutines : h # g => task'[h] = task[h]

(* The side at which b works is at p after the step.                        *)
At(b, c, p) ==
  /\ c.typ = b.typ
  /\ \/ c.s = b.s /\ c.pc = p
     \/ p = "done" /\ b.s = "enc" /\ c.s = "dec" /\ c.pc = "load"

(* The next step of the same side.                                          *)
LEMMA GoOnGoes ==
  ASSUME TypeOK, NEW g \in Goroutines, task[g].op = "reg", NEW pc \in Pcs, GoOn(g, pc)
  PROVE  \E c : Goes(g, c) /\ At(task[g], c, pc)
<1> DEFINE c == [task[g] EXCEPT !.pc = pc]
<1>1. task[g] \in ExtCalls
  BY TaskTypes
<1>2. Moved(task[g], c) /\ At(task[g], c, pc) /\ c \in ExtCalls
  BY <1>1 DEF Moved, At, ExtCalls
<1>3. c.pc = pc
  BY <1>1 DEF ExtCalls
<1>4. Set(g, c) /\ reg' = reg
  BY DEF GoOn
<1> HIDE DEF c
<1>5. c \in Tasks
  BY <1>2 DEF Tasks
<1>6. Lands(g, c)
  BY <1>3, <1>4, SetType DEF Lands
<1>7. Goes(g, c)
  BY <1>2, <1>4, <1>5, <1>6, SetType DEF Goes
<1> QED BY <1>2, <1>7

(* The decoder's side begins, or the call returns.                          *)
LEMMA SideDoneGoes ==
  ASSUME TypeOK, NEW g \in Goroutines, task[g].op = "reg", SideDone(g)
  PROVE  \E c : Goes(g, c) /\ At(task[g], c, "done")
<1>1. task[g] \in ExtCalls
  BY TaskTypes
<1>2. CASE task[g].s = "enc"
  <2> DEFINE c == [task[g] EXCEPT !.s = "dec", !.pc = "load"]
  <2>1. Moved(task[g], c) /\ c.pc = "load" /\ c \in ExtCalls
    BY <1>1 DEF Moved, ExtCalls, Sides, Pcs
  <2>2. At(task[g], c, "done")
    BY <1>1, <1>2 DEF At, ExtCalls
  <2>3. Set(g, c) /\ reg' = reg
    BY <1>2 DEF SideDone
  <2> HIDE DEF c
  <2>4. c \in Tasks
    BY <2>1 DEF Tasks
  <2>5. Lands(g, c)
    BY <2>1, <2>3, SetType DEF Lands, Pcs
  <2>6. Goes(g, c)
    BY <2>1, <2>3, <2>4, <2>5, SetType DEF Goes
  <2> QED BY <2>2, <2>6
<1>3. CASE task[g].s # "enc"
  <2> DEFINE c == [task[g] EXCEPT !.pc = "done"]
  <2>1. Moved(task[g], c) /\ c.pc = "done" /\ c.s = "dec"
    BY <1>1, <1>3 DEF Moved, ExtCalls, Sides, Pcs
  <2>2. At(task[g], c, "done")
    BY <1>1 DEF At, ExtCalls
  <2>3. Set(g, Idle) /\ reg' = [reg EXCEPT ![task[g].id] = task[g].t]
    BY <1>3 DEF SideDone
  <2> HIDE DEF c
  <2>4. task'[g] = Idle /\ \A h \in Goroutines : h # g => task'[h] = task[h]
    BY <2>3, SetType
  <2>5. task' \in [Goroutines -> Tasks]
    BY <2>3, SetType DEF Tasks
  <2>6. reg' = [reg EXCEPT ![c.id] = c.t]
    BY <2>1, <2>3 DEF Moved
  <2>7. Goes(g, c)
    BY <2>1, <2>4, <2>5, <2>6 DEF Goes, Lands
  <2> QED BY <2>2, <2>7
<1> QED BY <1>2, <1>3

(* Where a side goes on when the id is unregistered.                        *)
Resume(b) == IF b.t = None THEN "done" ELSE IF b.s = "dec" THEN "storeExt" ELSE "storeId"

(* unregisterExtEncoder or unregisterExtDecoder returns.                    *)
LEMMA UnregisteredGoes ==
  ASSUME TypeOK, NEW g \in Goroutines, task[g].op = "reg", Unregistered(g)
  PROVE  \E c : Goes(g, c) /\ At(task[g], c, Resume(task[g]))
<1>1. CASE task[g].t = None
  <2>1. SideDone(g)
    BY <1>1 DEF Unregistered
  <2> QED BY <1>1, <2>1, SideDoneGoes DEF Resume
<1>2. CASE task[g].t # None
  <2>1. GoOn(g, Resume(task[g]))
    BY <1>2 DEF Unregistered, Resume
  <2>2. Resume(task[g]) \in Pcs
    BY <1>2 DEF Resume, Pcs
  <2> QED BY <2>1, <2>2, GoOnGoes
<1> QED BY <1>1, <1>2

(* The types of a registration's step.                                      *)
LEMMA GoesType ==
  ASSUME TypeOK, NEW g \in Goroutines, NEW c, Goes(g, c),
         funcs' \in [Sides -> [Types -> Funcs \cup {Absent}]],
         idTypes' \in [Sides -> [AllIds -> Registered \cup {None}]],
         extTypes' \in [AllIds -> Registered \cup {None}],
         UNCHANGED <<user, ops>>
  PROVE  TypeOK'
<1>1. c.id \in AllIds /\ c.t \in Registered \cup {None}
  BY DEF Goes, Moved, AllIds, Registered
<1>2. reg' \in [AllIds -> Registered \cup {None}]
  BY <1>1 DEF TypeOK, Goes, Lands
<1> QED BY <1>2 DEF TypeOK, Goes, Tasks

(* The steps of unregisterExtEncoder, unregisterExtDecoder and              *)
(* RegisterExtEncoder, RegisterExtDecoder, as moves of the call.            *)
LEMMA LoadIdGoes ==
  ASSUME TypeOK, NEW g \in Goroutines, LoadId(g)
  PROVE  LET typ == idTypes[task[g].s][task[g].id]
         IN \/ typ = None /\ \E c : Goes(g, c) /\ At(task[g], c, Resume(task[g]))
            \/ typ # None /\ \E c : Goes(g, c) /\ c.typ = typ /\ c.s = task[g].s /\ c.pc = "deleteId"
<1> DEFINE b == task[g]
           typ == idTypes[b.s][b.id]
           c == [b EXCEPT !.typ = typ, !.pc = "deleteId"]
<1>1. b \in ExtCalls /\ b.op = "reg"
  BY TaskTypes DEF LoadId, InCall
<1>2. CASE typ = None /\ Unregistered(g)
  BY <1>1, <1>2, UnregisteredGoes
<1>3. CASE typ # None /\ Set(g, c) /\ reg' = reg
  <2>1. typ \in Registered \cup {None}
    BY <1>1 DEF TypeOK, ExtCalls, AllIds
  <2>2. Moved(b, c) /\ c \in ExtCalls /\ c.pc = "deleteId" /\ c.typ = typ /\ c.s = b.s
    BY <1>1, <2>1 DEF Moved, ExtCalls, Pcs
  <2> HIDE DEF c, b, typ
  <2>3. c \in Tasks
    BY <2>2 DEF Tasks
  <2>4. Lands(g, c)
    BY <1>3, <2>2, SetType DEF Lands, Pcs
  <2>5. Goes(g, c)
    BY <1>3, <2>2, <2>3, <2>4, SetType DEF Goes, b
  <2> QED BY <1>3, <2>2, <2>5 DEF typ, b
<1> QED BY <1>2, <1>3 DEF LoadId

(* The other steps.                                                         *)
LEMMA RegGoes ==
  ASSUME TypeOK, NEW g \in Goroutines
  PROVE  /\ DeleteId(g) => \E c : Goes(g, c) /\ At(task[g], c, IF task[g].s = "dec" THEN "deleteExt" ELSE "deleteType")
         /\ DeleteExt(g) => \E c : Goes(g, c) /\ At(task[g], c, "deleteType")
         /\ DeleteType(g) => \E c : /\ Goes(g, c)
                                      /\ At(task[g], c, IF task[g].typ \in Pointers THEN "deleteElem" ELSE Resume(task[g]))
         /\ DeleteElem(g) => \E c : Goes(g, c) /\ At(task[g], c, Resume(task[g]))
         /\ StoreExt(g) => \E c : Goes(g, c) /\ At(task[g], c, "storeId")
         /\ StoreId(g) => \E c : Goes(g, c) /\ At(task[g], c, "storeType")
         /\ StoreType(g) => \E c : Goes(g, c) /\ At(task[g], c, IF task[g].t \in Pointers THEN "storeElem" ELSE "done")
         /\ StoreElem(g) => \E c : Goes(g, c) /\ At(task[g], c, "done")
<1> DEFINE P(pc) == \E c : Goes(g, c) /\ At(task[g], c, pc)
<1>1. ASSUME NEW pc \in Pcs, task[g].op = "reg", GoOn(g, pc) PROVE P(pc)
  BY <1>1, GoOnGoes
<1>2. ASSUME task[g].op = "reg", Unregistered(g) PROVE P(Resume(task[g]))
  BY <1>2, UnregisteredGoes
<1>3. ASSUME task[g].op = "reg", SideDone(g) PROVE P("done")
  BY <1>3, SideDoneGoes
<1> HIDE DEF P
<1>4. DeleteId(g) => P(IF task[g].s = "dec" THEN "deleteExt" ELSE "deleteType")
  BY <1>1 DEF DeleteId, InCall, Pcs
<1>5. DeleteExt(g) => P("deleteType")
  BY <1>1 DEF DeleteExt, InCall, Pcs
<1>6. DeleteType(g) => P(IF task[g].typ \in Pointers THEN "deleteElem" ELSE Resume(task[g]))
  BY <1>1, <1>2 DEF DeleteType, InCall, Pcs
<1>7. DeleteElem(g) => P(Resume(task[g]))
  BY <1>2 DEF DeleteElem, InCall
<1>8. StoreExt(g) => P("storeId")
  BY <1>1 DEF StoreExt, InCall, Pcs
<1>9. StoreId(g) => P("storeType")
  BY <1>1 DEF StoreId, InCall, Pcs
<1>10. StoreType(g) => P(IF task[g].t \in Pointers THEN "storeElem" ELSE "done")
  BY <1>1, <1>3 DEF StoreType, InCall, Pcs
<1>11. StoreElem(g) => P("done")
  BY <1>3 DEF StoreElem, InCall
<1> QED BY <1>4, <1>5, <1>6, <1>7, <1>8, <1>9, <1>10, <1>11 DEF P

RegStep(g) ==
  \/ LoadId(g) \/ DeleteId(g) \/ DeleteExt(g) \/ DeleteType(g) \/ DeleteElem(g)
  \/ StoreExt(g) \/ StoreId(g) \/ StoreType(g) \/ StoreElem(g)

(* A registration keeps the types of the maps.                              *)
LEMMA RegStepType ==
  ASSUME TypeOK, NEW g \in Goroutines, RegStep(g)
  PROVE  TypeOK'
<1> DEFINE b == task[g]
<1>1. b \in ExtCalls
  BY TaskTypes DEF RegStep, InCall, LoadId, DeleteId, DeleteExt, DeleteType, DeleteElem,
                   StoreExt, StoreId, StoreType, StoreElem
<1>2. b.id \in AllIds /\ b.t \in Registered \cup {None} /\ b.s \in Sides
  BY <1>1 DEF ExtCalls, AllIds, Registered
<1>3. \E c : Goes(g, c)
  BY LoadIdGoes, RegGoes, Zenon DEF RegStep
<1>4. UNCHANGED <<user, ops>>
  BY Zenon DEF RegStep, LoadId, DeleteId, DeleteExt, DeleteType, DeleteElem,
         StoreExt, StoreId, StoreType, StoreElem
<1>5. extTypes' \in [AllIds -> Registered \cup {None}]
  BY <1>2 DEF RegStep, LoadId, DeleteId, DeleteExt, DeleteType, DeleteElem,
              StoreExt, StoreId, StoreType, StoreElem, TypeOK
<1>6. idTypes' \in [Sides -> [AllIds -> Registered \cup {None}]]
  <2>1. \/ idTypes' = idTypes
        \/ idTypes' = [idTypes EXCEPT ![b.s][b.id] = None]
        \/ idTypes' = [idTypes EXCEPT ![b.s][b.id] = b.t]
    BY Zenon DEF RegStep, LoadId, DeleteId, DeleteExt, DeleteType, DeleteElem,
                 StoreExt, StoreId, StoreType, StoreElem
  <2>2. ASSUME NEW x \in Registered \cup {None}
        PROVE  [idTypes EXCEPT ![b.s][b.id] = x] \in [Sides -> [AllIds -> Registered \cup {None}]]
    BY <1>2 DEF TypeOK
  <2>3. idTypes \in [Sides -> [AllIds -> Registered \cup {None}]]
    BY DEF TypeOK
  <2>4. ASSUME NEW x \in Registered \cup {None}, idTypes' = [idTypes EXCEPT ![b.s][b.id] = x]
        PROVE  idTypes' \in [Sides -> [AllIds -> Registered \cup {None}]]
    BY <2>2, <2>4
  <2>5. None \in Registered \cup {None}
    OBVIOUS
  <2> HIDE DEF b
  <2> QED BY <1>2, <2>1, <2>3, <2>4, <2>5
<1>7. funcs' \in [Sides -> [Types -> Funcs \cup {Absent}]]
  <2>1. \/ funcs' = funcs
        \/ \E x : funcs' = [funcs EXCEPT ![b.s][x] = Absent]
        \/ \E x : funcs' = [funcs EXCEPT ![b.s][x] = Ext(b.id)]
    BY Zenon DEF RegStep, LoadId, DeleteId, DeleteExt, DeleteType, DeleteElem,
                 StoreExt, StoreId, StoreType, StoreElem
  <2>2. Ext(b.id) \in Funcs
    BY <1>2, FuncTypes
  <2>3. ASSUME NEW f \in Funcs \cup {Absent}, NEW x
        PROVE  [funcs EXCEPT ![b.s][x] = f] \in [Sides -> [Types -> Funcs \cup {Absent}]]
    BY <1>2 DEF TypeOK
  <2>4. funcs \in [Sides -> [Types -> Funcs \cup {Absent}]]
    BY DEF TypeOK
  <2>5. Absent \in Funcs \cup {Absent} /\ Ext(b.id) \in Funcs \cup {Absent}
    BY <2>2
  <2>6. ASSUME NEW x, NEW f \in Funcs \cup {Absent}, funcs' = [funcs EXCEPT ![b.s][x] = f]
        PROVE  funcs' \in [Sides -> [Types -> Funcs \cup {Absent}]]
    BY <2>3, <2>6
  <2> QED BY <2>1, <2>4, <2>5, <2>6
<1>8. PICK c : Goes(g, c)
  BY <1>3
<1> HIDE DEF b
<1> QED BY <1>4, <1>5, <1>6, <1>7, <1>8, GoesType

(* Register keeps them.                                                     *)
LEMMA StoreUserType ==
  ASSUME TypeOK, NEW g \in Goroutines, StoreUser(g)
  PROVE  TypeOK'
<1>1. task[g] \in UserCalls
  BY TaskTypes DEF StoreUser
<1>2. CASE task[g].sides = {} /\ Set(g, Idle) /\ UNCHANGED <<funcs, user>>
  <2>1. task' \in [Goroutines -> Tasks]
    BY <1>2, SetType DEF Tasks
  <2> QED BY <1>2, <2>1 DEF StoreUser, TypeOK, Tasks
<1>3. ASSUME NEW s \in task[g].sides,
             funcs' = [funcs EXCEPT ![s][task[g].t] = User],
             user' = [user EXCEPT ![s] = @ \cup {task[g].t}],
             Set(g, [task[g] EXCEPT !.sides = @ \ {s}])
      PROVE  TypeOK'
  <2>1. s \in Sides /\ task[g].t \in UserTypes
    BY <1>1, <1>3 DEF UserCalls
  <2>2. [task[g] EXCEPT !.sides = @ \ {s}] \in UserCalls
    BY <1>1, <1>3 DEF UserCalls
  <2>3. task' \in [Goroutines -> Tasks]
    BY <1>3, <2>2, SetType DEF Tasks
  <2>4. funcs' \in [Sides -> [Types -> Funcs \cup {Absent}]]
    BY <1>3, <2>1, FuncTypes DEF TypeOK
  <2>5. user' \in [Sides -> SUBSET UserTypes]
    BY <1>3, <2>1 DEF TypeOK
  <2>6. UNCHANGED <<idTypes, extTypes, reg, ops>>
    BY DEF StoreUser
  <2> QED BY <2>3, <2>4, <2>5, <2>6 DEF TypeOK, Tasks
<1> QED BY <1>2, <1>3 DEF StoreUser

(* A lookup keeps them.                                                     *)
LEMMA GoToType ==
  ASSUME TypeOK, NEW g \in Goroutines, task[g].op = "get",
         NEW at \in Types, NEW pc \in {"load", "elem", "store", "use"},
         NEW f \in Funcs \cup {Absent}, pc = "elem" => at \in Pointers, GoTo(g, at, pc, f)
  PROVE  task' \in [Goroutines -> Tasks]
<1>1. task[g] \in GetCalls
  BY TaskTypes
<1>2. [task[g] EXCEPT !.at = at, !.pc = pc, !.f = f] \in GetCalls
  BY <1>1 DEF GetCalls
<1> QED BY <1>2, SetType DEF GoTo, Tasks

LookupStep(g) == LoadType(g) \/ LoadElem(g) \/ StoreFunc(g) \/ Use(g)

(* getEncoder and getDecoder keep the types of the maps.                    *)
LEMMA LookupStepType ==
  ASSUME TypeOK, NEW g \in Goroutines, LookupStep(g)
  PROVE  TypeOK'
<1> DEFINE b == task[g]
<1>1. b.op = "get" /\ b \in GetCalls
  BY TaskTypes DEF LookupStep, InCall, LoadType, LoadElem, StoreFunc, Use
<1>2. b.at \in Types /\ b.typ \in Types /\ b.s \in Sides /\ b.f \in Funcs \cup {Absent}
  BY <1>1 DEF GetCalls
<1>3. ASSUME NEW f \in Funcs \cup {Absent}, Return(g, f)
      PROVE  task' \in [Goroutines -> Tasks]
  BY <1>1, <1>2, <1>3, GoToType DEF Return
<1>4. CASE LoadType(g)
  <2>1. funcs[b.s][b.at] \in Funcs \cup {Absent} /\ compute(b.at) \in Funcs
    BY <1>2, FuncTypes DEF TypeOK
  <2>2. task' \in [Goroutines -> Tasks]
    BY <1>1, <1>2, <1>3, <1>4, <2>1, GoToType DEF LoadType
  <2> QED BY <1>4, <2>2 DEF LoadType, TypeOK, Tasks
<1>5. CASE LoadElem(g)
  <2>1. compute(b.at) \in Funcs
    BY <1>2, FuncTypes
  <2>2. task' \in [Goroutines -> Tasks]
    <3>1. CASE GoTo(g, ElemOf[b.at], "load", Absent) /\ b.at \in Pointers
      BY <1>1, <3>1, GoToType, RegistryAssumption DEF Types
    <3>2. CASE GoTo(g, b.at, "store", compute(b.at))
      BY <1>1, <1>2, <2>1, <3>2, GoToType
    <3>3. b.at \in Pointers
      BY <1>1, <1>5 DEF LoadElem, InCall, GetCalls
    <3> QED BY <1>5, <3>1, <3>2, <3>3 DEF LoadElem
  <2> QED BY <1>5, <2>2 DEF LoadElem, TypeOK, Tasks
<1>6. CASE StoreFunc(g)
  <2>1. task' \in [Goroutines -> Tasks]
    BY <1>2, <1>3, <1>6 DEF StoreFunc
  <2>2. funcs' \in [Sides -> [Types -> Funcs \cup {Absent}]]
    BY <1>2, <1>6 DEF StoreFunc, TypeOK
  <2> QED BY <1>6, <2>1, <2>2 DEF StoreFunc, TypeOK, Tasks
<1>7. CASE Use(g)
  <2>1. task' \in [Goroutines -> Tasks]
    BY <1>7, SetType DEF Use, Tasks
  <2> QED BY <1>7, <2>1 DEF Use, TypeOK, Tasks
<1> QED BY <1>4, <1>5, <1>6, <1>7 DEF LookupStep

(* And so do the calls that begin.                                          *)
LEMMA ExtCallType ==
  ASSUME TypeOK, NEW id \in Ids, NEW t \in Registrable \cup {None},
         NEW bases \in SUBSET Values
  PROVE  ExtCall(id, t, bases) \in Tasks
<1>1. ExtCall(id, t, bases) \in ExtCalls
  BY DEF ExtCall, ExtCalls, Sides, Pcs
<1> QED BY <1>1 DEF Tasks

(* The value type that an id holds.                                         *)
LEMMA HeldType ==
  ASSUME TypeOK, NEW i \in AllIds
  PROVE  Held(i) \in SUBSET Values
<1>1. reg[i] # None => reg[i] \in Types
  BY RegistryAssumption DEF TypeOK, Registered, Types
<1> QED BY <1>1, BaseType DEF Held

(* RegisterExt, UnregisterExt, Register and a lookup begin.                 *)
LEMMA CallType ==
  ASSUME TypeOK, NEW g \in Goroutines, Call(g)
  PROVE  TypeOK'
<1>1. ASSUME NEW id \in Ids, NEW t \in Registrable, RegisterExt(g, id, t) PROVE TypeOK'
  <2>1. Held(id) \in SUBSET Values /\ Base(t) \in Values
    BY HeldType, BaseType, RegistryAssumption DEF AllIds
  <2>2. ExtCall(id, t, {Base(t)} \cup Held(id)) \in Tasks
    BY <2>1, ExtCallType
  <2> QED BY <1>1, <2>2, BeginType DEF RegisterExt
<1>2. ASSUME NEW id \in Ids, UnregisterExt(g, id) PROVE TypeOK'
  <2>1. ExtCall(id, None, Held(id)) \in Tasks
    BY HeldType, ExtCallType DEF AllIds
  <2> QED BY <1>2, <2>1, BeginType DEF UnregisterExt
<1>3. ASSUME NEW t \in UserTypes, NEW sides \in SUBSET Sides, Register(g, t, sides) PROVE TypeOK'
  <2>1. [op |-> "user", bases |-> {t}, t |-> t, sides |-> sides] \in UserCalls
    BY RegistryAssumption DEF UserCalls
  <2> QED BY <1>3, <2>1, BeginType DEF Register, Tasks
<1>4. ASSUME NEW s \in Sides, NEW t \in Types, Get(g, s, t) PROVE TypeOK'
  <2>1. [op |-> "get", bases |-> {Base(t)}, s |-> s, typ |-> t, at |-> t, pc |-> "load", f |-> Absent] \in GetCalls
    BY BaseType DEF GetCalls
  <2> QED BY <1>4, <2>1, BeginType DEF Get, Tasks
<1> QED BY <1>1, <1>2, <1>3, <1>4 DEF Call

(* The maps after time.go's init.                                           *)
LEMMA InitType == Init => TypeOK
<1> SUFFICES ASSUME Init PROVE TypeOK
  OBVIOUS
<1>1. TimeId \in AllIds /\ Ext(TimeId) \in Funcs
  BY FuncTypes DEF AllIds
<1>2. funcs \in [Sides -> [Types -> Funcs \cup {Absent}]]
  BY <1>1 DEF Init
<1>3. /\ idTypes \in [Sides -> [AllIds -> Registered \cup {None}]]
      /\ extTypes \in [AllIds -> Registered \cup {None}]
      /\ reg \in [AllIds -> Registered \cup {None}]
      /\ user \in [Sides -> SUBSET UserTypes]
      /\ task \in [Goroutines -> {Idle} \cup ExtCalls \cup UserCalls \cup GetCalls]
  BY DEF Init, Registered
<1>4. ops \in 0 .. MaxOps
  BY RegistryAssumption DEF Init
<1> QED BY <1>2, <1>3, <1>4 DEF TypeOK

(* The maps hold what they are typed to hold, with registrations and        *)
(* lookups in any order and at any time: a lookup that races with a         *)
(* registration may find the wrong function but it finds a function.        *)
THEOREM TypeCorrect == Spec => []TypeOK
<1>1. TypeOK /\ [Next]_vars => TypeOK'
  <2> SUFFICES ASSUME TypeOK, [Next]_vars PROVE TypeOK'
    OBVIOUS
  <2>1. ASSUME NEW g \in Goroutines, Call(g) PROVE TypeOK'
    BY <2>1, CallType
  <2>2. ASSUME NEW g \in Goroutines, Step(g) PROVE TypeOK'
    BY <2>2, RegStepType, StoreUserType, LookupStepType DEF Step, RegStep, LookupStep
  <2>3. CASE UNCHANGED vars
    BY <2>3 DEF vars, TypeOK
  <2> QED BY <2>1, <2>2, <2>3 DEF Next
<1> QED BY <1>1, InitType, PTL DEF Spec

-----------------------------------------------------------------------------
(***************************************************************************)
(* Families of types and what they mean                                    *)
(***************************************************************************)
(* A value type and its pointer type have the same base, and no other type  *)
(* has it.                                                                  *)
LEMMA Family ==
  /\ \A t \in Types : Base(t) \in Types /\ Base(Base(t)) = Base(t)
  /\ \A t \in Values : Base(t) = t /\ t \in Types
  /\ \A p \in Pointers : p \in Types /\ Base(p) = ElemOf[p]
  /\ \A p \in Pointers, x \in Types : Base(x) = Base(p) => x = p \/ x = Base(p)
<1>1. \A t \in Values : Base(t) = t /\ t \in Types
  BY RegistryAssumption DEF Base, Types
<1>2. \A p \in Pointers : p \in Types /\ Base(p) = ElemOf[p] /\ Base(p) \in Values
  BY RegistryAssumption DEF Base, Types
<1>3. \A t \in Types : Base(t) \in Types /\ Base(Base(t)) = Base(t)
  BY <1>1, BaseType
<1>4. ASSUME NEW p \in Pointers, NEW x \in Types, Base(x) = Base(p) PROVE x = p \/ x = Base(p)
  <2>1. CASE x \in Pointers
    BY <1>2, <1>4, <2>1, RegistryAssumption
  <2>2. CASE x \in Values
    BY <1>1, <1>4, <2>2
  <2> QED BY <2>1, <2>2 DEF Types
<1> QED BY <1>1, <1>2, <1>3, <1>4

(* The registrations of the state.                                          *)
LEMMA HeldSame == \A i : Held(i) = HeldIn(reg, i)
BY DEF Held, HeldIn

(* Meaning is MeaningIn of the state.                                       *)
LEMMA MeaningSame ==
  ASSUME NEW s, NEW t
  PROVE  Meaning(s, t) = MeaningIn(reg, user, s, t)
<1>1. {i \in AllIds : Base(t) \in Held(i)} = Holders(reg, Base(t))
  BY DEF Held, HeldIn, Holders
<1> DEFINE ids == {i \in AllIds : Base(t) \in Held(i)}
<1>2. Meaning(s, t) = IF ids # {} THEN Ext(CHOOSE i \in ids : TRUE)
                      ELSE IF Base(t) \in user[s] THEN User ELSE compute(t)
  BY DEF Meaning
<1>3. ids = Holders(reg, Base(t))
  BY <1>1
<1> HIDE DEF ids
<1> QED BY <1>2, <1>3 DEF MeaningIn

(* A type with one registration means its extension.                        *)
LEMMA MeaningHeld ==
  ASSUME NEW r, NEW u, NEW s, NEW t, NEW i \in AllIds, Base(t) \in HeldIn(r, i),
         \A j \in AllIds : j # i => Base(t) \notin HeldIn(r, j)
  PROVE  MeaningIn(r, u, s, t) = Ext(i)
<1>1. Holders(r, Base(t)) = {i}
  BY DEF Holders
<1>2. (CHOOSE j \in {i} : TRUE) = i
  OBVIOUS
<1> QED BY <1>1, <1>2 DEF MeaningIn

(* A type without a registration.                                           *)
LEMMA MeaningFree ==
  ASSUME NEW r, NEW u, NEW s, NEW t, \A j \in AllIds : Base(t) \notin HeldIn(r, j)
  PROVE  MeaningIn(r, u, s, t) = IF Base(t) \in u[s] THEN User ELSE compute(t)
<1>1. Holders(r, Base(t)) = {}
  BY DEF Holders
<1> QED BY <1>1 DEF MeaningIn

(* What a type means depends on its own registrations only.                 *)
LEMMA MeaningFrame ==
  ASSUME NEW r, NEW u, NEW r2, NEW u2, NEW s, NEW t,
         \A i \in AllIds : Base(t) \in HeldIn(r, i) <=> Base(t) \in HeldIn(r2, i),
         Base(t) \in u[s] <=> Base(t) \in u2[s]
  PROVE  MeaningIn(r, u, s, t) = MeaningIn(r2, u2, s, t)
<1>1. Holders(r, Base(t)) = Holders(r2, Base(t))
  BY DEF Holders
<1> QED BY <1>1 DEF MeaningIn

(* A pointer type means what its element means.                             *)
LEMMA MeaningElem ==
  ASSUME Disciplined, NEW r, NEW u, NEW s, NEW p \in Pointers
  PROVE  MeaningIn(r, u, s, p) = MeaningIn(r, u, s, ElemOf[p])
<1> DEFINE e == ElemOf[p]
<1>1. e \in Values /\ Base(p) = e /\ Base(e) = e /\ Hooks[e] \subseteq Hooks[p]
  BY RegistryAssumption, Family
<1>2. PtrHooks(e) = Hooks[p]
  <2>1. {q \in Pointers : ElemOf[q] = e} = {p}
    BY RegistryAssumption
  <2> QED BY <2>1 DEF PtrHooks
<1>3. p \notin Values
  BY RegistryAssumption
<1>4. compute(p) = compute(e)
  <2>1. CASE Hooks[e] # {}
    <3>1. Hooks[p] # {}
      BY <1>1, <2>1
    <3>2. Highest(Hooks[p]) = Highest(Hooks[e])
      BY <2>1 DEF Disciplined
    <3> HIDE DEF e
    <3> QED BY <2>1, <3>1, <3>2 DEF compute
  <2>2. CASE Hooks[e] = {} /\ Hooks[p] # {}
    <3> HIDE DEF e
    <3> QED BY <1>1, <1>2, <2>2 DEF compute
  <2>3. CASE Hooks[e] = {} /\ Hooks[p] = {}
    <3> HIDE DEF e
    <3> QED BY <1>2, <1>3, <2>3 DEF compute
  <2> QED BY <2>1, <2>2, <2>3
<1> HIDE DEF e
<1>5. MeaningIn(r, u, s, p) = MeaningIn(r, u, s, e)
  BY <1>1, <1>4 DEF MeaningIn
<1> QED BY <1>5 DEF e

-----------------------------------------------------------------------------
(***************************************************************************)
(* What a step of one goroutine leaves to the others                       *)
(***************************************************************************)
(* A call depends on the entries of its own types and its own id, a lookup  *)
(* on what the registrations mean only.                                     *)
LEMMA Unaffected ==
  ASSUME NEW c \in Tasks, NEW F, NEW I, NEW E, NEW r, NEW u, NEW F2, NEW I2, NEW E2, NEW r2, NEW u2,
         \A i \in AllIds : r[i] \in Types \cup {None},
         CallOK(c, F, I, E, r, u),
         c.op # "get" => \A s \in Sides : \A x \in Types : Base(x) \in c.bases => F2[s][x] = F[s][x],
         c.op = "reg" => /\ \A s \in Sides : I2[s][c.id] = I[s][c.id]
                         /\ E2[c.id] = E[c.id] /\ r2[c.id] = r[c.id],
         c.op = "get" => \A s \in Sides : \A x \in Types : Base(x) \in c.bases =>
                           MeaningIn(r2, u2, s, x) = MeaningIn(r, u, s, x)
  PROVE  CallOK(c, F2, I2, E2, r2, u2)
<1>1. ASSUME c.op = "reg" PROVE Shape(c, r2) /\ Midway(c, F2, I2, E2, r2)
  <2>1. c \in ExtCalls
    BY <1>1 DEF Tasks, ExtCalls, UserCalls, GetCalls, Idle
  <2>2. c.id \in AllIds /\ c.t \in Types \cup {None} /\ c.s \in Sides
    BY <2>1, RegistryAssumption DEF ExtCalls, AllIds
  <2>3. Shape(c, r) /\ Midway(c, F, I, E, r)
    BY <1>1 DEF CallOK
  <2>4. Shape(c, r2)
    BY <1>1, <2>3 DEF Shape, HeldIn
  <2>5. c.t # None => Base(c.t) \in c.bases
    BY <2>3 DEF Shape
  <2>6. r[c.id] # None => Base(r[c.id]) \in c.bases
    BY <2>3 DEF Shape, HeldIn
  <2>7. ASSUME NEW s \in Sides
        PROVE  OnSide(Place(c, s), c.id, c.t, r2[c.id], F2[s], I2[s])
    <3>1. OnSide(Place(c, s), c.id, c.t, r[c.id], F[s], I[s])
      BY <2>3 DEF Midway
    <3>2. c.t # None => F2[s][c.t] = F[s][c.t] /\ F2[s][Base(c.t)] = F[s][Base(c.t)]
      BY <1>1, <2>2, <2>5, Family
    <3>3. r[c.id] # None => F2[s][r[c.id]] = F[s][r[c.id]] /\ F2[s][Base(r[c.id])] = F[s][Base(r[c.id])]
      BY <1>1, <2>2, <2>6, Family
    <3>4. I2[s][c.id] = I[s][c.id] /\ r2[c.id] = r[c.id]
      BY <1>1
    <3> QED BY <3>1, <3>2, <3>3, <3>4 DEF OnSide
  <2>8. OnExt(Place(c, "dec"), c.id, c.t, r2[c.id], E2)
    BY <1>1, <2>3 DEF Midway, OnExt
  <2> QED BY <2>4, <2>7, <2>8 DEF Midway
<1>2. ASSUME c.op = "user" PROVE Fresh(c, F2)
  <2>1. c \in UserCalls
    BY <1>2 DEF Tasks, ExtCalls, UserCalls, GetCalls, Idle
  <2>2. Fresh(c, F) /\ c.sides \subseteq Sides
    BY <1>2, <2>1 DEF CallOK, UserCalls
  <2> QED BY <1>2, <2>2 DEF Fresh
<1>3. ASSUME c.op = "get" PROVE Found(c, r2, u2)
  <2>1. c \in GetCalls
    BY <1>3 DEF Tasks, ExtCalls, UserCalls, GetCalls, Idle
  <2>2. Found(c, r, u) /\ c.s \in Sides /\ c.typ \in Types
    BY <1>3, <2>1 DEF CallOK, GetCalls
  <2>3. Base(c.typ) \in c.bases /\ Base(c.at) \in c.bases /\ c.at \in Types
    BY <2>2, Family DEF Found
  <2>4. /\ MeaningIn(r2, u2, c.s, c.typ) = MeaningIn(r, u, c.s, c.typ)
        /\ MeaningIn(r2, u2, c.s, c.at) = MeaningIn(r, u, c.s, c.at)
    BY <1>3, <2>2, <2>3
  <2> QED BY <2>2, <2>4 DEF Found
<1> QED BY <1>1, <1>2, <1>3 DEF CallOK

-----------------------------------------------------------------------------
(***************************************************************************)
(* A step of a registration                                                *)
(***************************************************************************)
(* The step takes goroutine g's registration to c, leaves the maps as c     *)
(* says, and touches entries of its own types and id only.                  *)
RegMove(g, c) ==
  /\ task[g].op = "reg" /\ Goes(g, c) /\ user' = user
  /\ Shape(c, reg) /\ Midway(c, funcs', idTypes', extTypes', reg)
  /\ \A s \in Sides : \A x \in Types : Base(x) \notin c.bases => funcs'[s][x] = funcs[s][x]
  /\ \A s \in Sides : \A i \in AllIds : i # c.id => idTypes'[s][i] = idTypes[s][i]
  /\ \A i \in AllIds : i # c.id => extTypes'[i] = extTypes[i]

(* The registrations after the step.                                        *)
LEMMA RegMoveFacts ==
  ASSUME IInv, NEW g \in Goroutines, NEW c, RegMove(g, c)
  PROVE  /\ c.id \in Ids /\ c.t \in Registrable \cup {None}
         /\ c.bases = task[g].bases /\ c.id = task[g].id /\ c.t = task[g].t
         /\ \A i \in AllIds : i # c.id => reg'[i] = reg[i]
         /\ reg'[c.id] \in {reg[c.id], c.t}
         /\ HeldIn(reg, c.id) \subseteq c.bases /\ HeldIn(reg', c.id) \subseteq c.bases
         /\ \A i \in AllIds : i # c.id => HeldIn(reg', i) = HeldIn(reg, i)
         /\ \A i \in AllIds : i # c.id => HeldIn(reg, i) \cap c.bases = {}
         /\ \A s \in Sides : \A x \in Types : Base(x) \notin c.bases =>
              MeaningIn(reg', user', s, x) = MeaningIn(reg, user, s, x)
<1>1. /\ c.id \in Ids /\ c.t \in Registrable \cup {None} /\ c.pc \in Pcs \cup {"done"}
      /\ c.bases = task[g].bases /\ c.id = task[g].id /\ c.t = task[g].t
  BY DEF RegMove, Goes, Moved
<1>2. reg' = reg \/ reg' = [reg EXCEPT ![c.id] = c.t]
  BY DEF RegMove, Goes, Lands
<1>3. \A i \in AllIds : i # c.id => reg'[i] = reg[i]
  BY <1>1, <1>2 DEF IInv, TypeOK
<1>4. reg'[c.id] \in {reg[c.id], c.t}
  BY <1>1, <1>2 DEF IInv, TypeOK, AllIds
<1>5. HeldIn(reg, c.id) \subseteq c.bases /\ HeldIn(reg', c.id) \subseteq c.bases
  BY <1>4 DEF RegMove, Shape, HeldIn
<1>6. \A i \in AllIds : i # c.id => HeldIn(reg', i) = HeldIn(reg, i)
  BY <1>3 DEF HeldIn
<1>7. \A i \in AllIds : i # c.id => HeldIn(reg, i) \cap c.bases = {}
  <2> SUFFICES ASSUME NEW i \in AllIds, i # c.id PROVE HeldIn(reg, i) \cap c.bases = {}
    OBVIOUS
  <2>1. HeldIn(reg, i) \cap HeldIn(reg, c.id) = {}
    BY <1>1 DEF IInv, Sole, AllIds
  <2>2. c.t # None => Base(c.t) \notin HeldIn(reg, i)
    BY <1>1 DEF IInv, Sole, RegMove
  <2> QED BY <2>1, <2>2 DEF RegMove, Shape
<1>8. ASSUME NEW s \in Sides, NEW x \in Types, Base(x) \notin c.bases
      PROVE  MeaningIn(reg', user', s, x) = MeaningIn(reg, user, s, x)
  <2>1. \A i \in AllIds : Base(x) \in HeldIn(reg', i) <=> Base(x) \in HeldIn(reg, i)
    BY <1>5, <1>6, <1>8
  <2>2. user' = user
    BY DEF RegMove
  <2> QED BY <2>1, <2>2, MeaningFrame
<1> QED BY <1>1, <1>3, <1>4, <1>5, <1>6, <1>7, <1>8

(* The other goroutines.                                                    *)
LEMMA RegMoveOthers ==
  ASSUME IInv, NEW g \in Goroutines, NEW c, RegMove(g, c), NEW h \in Goroutines, h # g
  PROVE  /\ task'[h] = task[h]
         /\ task[h].bases \cap c.bases = {}
         /\ task[h].op = "reg" => task[h].id # c.id
<1>1. task'[h] = task[h]
  BY DEF RegMove, Goes
<1>2. Busy(g)
  BY DEF RegMove, Busy
<1>3. c.bases = task[g].bases /\ c.id = task[g].id
  BY DEF RegMove, Goes, Moved
<1> QED BY <1>1, <1>2, <1>3 DEF IInv, Apart, RegMove

(* The calls in progress stay as they should be.                            *)
LEMMA RegMoveCalls ==
  ASSUME IInv, NEW g \in Goroutines, NEW c, RegMove(g, c)
  PROVE  Calls'
<1> USE RegMoveFacts
<1>1. CallOK(task'[g], funcs', idTypes', extTypes', reg', user')
  <2>1. CASE c.pc \in Pcs /\ task'[g] = c /\ reg' = reg
    <3>1. c.op = "reg"
      BY DEF RegMove, Goes, Moved
    <3> QED BY <2>1, <3>1 DEF CallOK, RegMove
  <2>2. CASE task'[g] = Idle
    BY <2>2 DEF CallOK, Idle
  <2> QED BY <2>1, <2>2 DEF RegMove, Goes, Lands
<1>2. ASSUME NEW h \in Goroutines, h # g
      PROVE  CallOK(task'[h], funcs', idTypes', extTypes', reg', user')
  <2> DEFINE d == task[h]
  <2>1. task'[h] = d /\ d.bases \cap c.bases = {} /\ (d.op = "reg" => d.id # c.id)
    BY <1>2, RegMoveOthers
  <2>2. d \in Tasks
    BY TaskTypes DEF IInv
  <2>3. d.op = "reg" => d.id \in AllIds
    BY TaskTypes DEF IInv, ExtCalls, AllIds
  <2>4. \A i \in AllIds : reg[i] \in Types \cup {None}
    BY RegistryAssumption DEF IInv, TypeOK, Registered, Types
  <2>5. CallOK(d, funcs, idTypes, extTypes, reg, user)
    BY DEF IInv, Calls
  <2>6. \A s \in Sides : \A x \in Types : Base(x) \in d.bases => funcs'[s][x] = funcs[s][x]
    BY <2>1 DEF RegMove
  <2>7. d.op = "reg" => /\ \A s \in Sides : idTypes'[s][d.id] = idTypes[s][d.id]
                        /\ extTypes'[d.id] = extTypes[d.id] /\ reg'[d.id] = reg[d.id]
    BY <2>1, <2>3 DEF RegMove
  <2>8. \A s \in Sides : \A x \in Types : Base(x) \in d.bases =>
          MeaningIn(reg', user', s, x) = MeaningIn(reg, user, s, x)
    BY <2>1
  <2> HIDE DEF d
  <2>9. CallOK(d, funcs', idTypes', extTypes', reg', user')
    BY <2>2, <2>4, <2>5, <2>6, <2>7, <2>8, Unaffected
  <2> QED BY <2>1, <2>9
<1> QED BY <1>1, <1>2 DEF Calls

(* Registrations stay apart from other calls.                               *)
LEMMA RegMoveApart ==
  ASSUME IInv, NEW g \in Goroutines, NEW c, RegMove(g, c)
  PROVE  Apart'
<1>1. \/ task'[g] = Idle
      \/ /\ task'[g].op = task[g].op /\ task'[g].bases = task[g].bases /\ task'[g].id = task[g].id
  BY DEF RegMove, Goes, Moved, Lands
<1>2. \A h \in Goroutines : h # g => task'[h] = task[h]
  BY DEF RegMove, Goes
<1>3. Idle.op = "idle" /\ Idle.bases = {}
  BY DEF Idle
<1> QED BY <1>1, <1>2, <1>3 DEF IInv, Apart, Busy

(* A type keeps one registration.                                           *)
LEMMA RegMoveSole ==
  ASSUME Disciplined, IInv, NEW g \in Goroutines, NEW c, RegMove(g, c)
  PROVE  Sole'
<1> USE RegMoveFacts
<1>1. user' = user /\ c.id \in AllIds /\ c.id # TimeId
  BY RegistryAssumption DEF RegMove, AllIds
<1>2. c.t # None => \A s \in Sides : Base(c.t) \notin user[s]
  BY DEF IInv, Sole, RegMove
<1>3. \A i, j \in AllIds : i # j => HeldIn(reg', i) \cap HeldIn(reg', j) = {}
  BY DEF IInv, Sole
<1>4. \A i \in AllIds, s \in Sides : HeldIn(reg', i) \cap user'[s] = {}
  <2>1. \A s \in Sides : HeldIn(reg', c.id) \cap user[s] = {}
    <3>1. HeldIn(reg', c.id) \subseteq HeldIn(reg, c.id) \cup (IF c.t = None THEN {} ELSE {Base(c.t)})
      BY DEF HeldIn
    <3> QED BY <1>1, <1>2, <3>1 DEF IInv, Sole
  <2> QED BY <1>1, <2>1 DEF IInv, Sole
<1>5. reg'[TimeId] = TimeType /\ \A i \in Ids : reg'[i] \in Registrable \cup {None}
  BY <1>1 DEF IInv, Sole, AllIds
<1>6. ASSUME NEW h \in Goroutines, task'[h].op = "reg", task'[h].t # None
      PROVE  /\ \A j \in AllIds : j # task'[h].id => Base(task'[h].t) \notin HeldIn(reg', j)
             /\ \A s \in Sides : Base(task'[h].t) \notin user'[s]
  <2>1. CASE h = g
    <3>1. task'[g] = c
      BY <1>6, <2>1 DEF RegMove, Goes, Lands, Idle
    <3>2. Base(c.t) \in c.bases
      BY <1>6, <2>1, <3>1 DEF RegMove, Shape
    <3> QED BY <1>1, <1>2, <1>6, <2>1, <3>1, <3>2
  <2>2. CASE h # g
    <3>1. task'[h] = task[h] /\ task[h].bases \cap c.bases = {}
      BY <2>2, RegMoveOthers
    <3>2. Base(task[h].t) \in task[h].bases
      BY <1>6, <3>1 DEF IInv, Calls, CallOK, Shape
    <3>3. /\ \A j \in AllIds : j # task[h].id => Base(task[h].t) \notin HeldIn(reg, j)
          /\ \A s \in Sides : Base(task[h].t) \notin user[s]
      BY <1>6, <3>1 DEF IInv, Sole
    <3>4. Base(task[h].t) \notin HeldIn(reg', c.id)
      BY <3>1, <3>2
    <3>5. \A j \in AllIds : j # task[h].id => Base(task[h].t) \notin HeldIn(reg', j)
      BY <3>3, <3>4
    <3> QED BY <1>1, <3>1, <3>3, <3>5
  <2> QED BY <2>1, <2>2
<1>7. ASSUME NEW h \in Goroutines, task'[h].op = "user", NEW j \in AllIds
      PROVE  task'[h].t \notin HeldIn(reg', j)
  <2>1. h # g
    BY <1>7 DEF RegMove, Goes, Moved, Lands, Idle
  <2>2. task'[h] = task[h] /\ task[h].bases \cap c.bases = {}
    BY <2>1, RegMoveOthers
  <2>3. task[h].t \in task[h].bases
    BY <1>7, <2>2 DEF IInv, Calls, CallOK, Fresh
  <2>4. task[h].t \notin HeldIn(reg, j)
    BY <1>7, <2>2 DEF IInv, Sole
  <2> QED BY <2>2, <2>3, <2>4
<1> QED BY <1>3, <1>4, <1>5, <1>6, <1>7 DEF Sole

(* The maps agree on the ids that are not being registered.                 *)
LEMMA RegMoveAgree ==
  ASSUME IInv, NEW g \in Goroutines, NEW c, RegMove(g, c)
  PROVE  Agree'
<1> USE RegMoveFacts
<1> SUFFICES ASSUME NEW i \in AllIds, Settled(i)', NEW s \in Sides
             PROVE  /\ idTypes'[s][i] = reg'[i] /\ extTypes'[i] = reg'[i]
                    /\ reg'[i] # None => funcs'[s][reg'[i]] = Ext(i) /\ funcs'[s][Base(reg'[i])] = Ext(i)
  BY DEF Agree
<1>1. CASE i = c.id
  <2>1. c.pc = "done" /\ c.s = "dec" /\ reg' = [reg EXCEPT ![c.id] = c.t]
    BY <1>1 DEF RegMove, Goes, Moved, Lands, Settled
  <2>2. Place(c, "enc") = "done" /\ Place(c, "dec") = "done"
    BY <2>1 DEF Place
  <2>3. reg'[i] = c.t
    BY <1>1, <2>1 DEF IInv, TypeOK
  <2>4. OnSide("done", i, c.t, reg[i], funcs'[s], idTypes'[s]) /\ OnExt("done", i, c.t, reg[i], extTypes')
    BY <1>1, <2>2 DEF RegMove, Midway, Sides
  <2>5. "done" \notin ToStoreElem
    BY DEF ToStoreElem, ToStoreType, ToStoreId, ToStoreExt, ToDeleteElem, ToDeleteType, ToDeleteExt, ToDeleteId
  <2> QED BY <2>3, <2>4, <2>5
       DEF OnSide, OnExt, ToStoreElem, ToStoreType, ToStoreId, ToStoreExt, ToDeleteElem, ToDeleteType, ToDeleteExt
<1>2. CASE i # c.id
  <2>1. Settled(i)
    <3> SUFFICES ASSUME NEW h \in Goroutines, task[h].op = "reg" PROVE task[h].id # i
      BY DEF Settled
    <3>1. CASE h = g
      BY <1>2, <3>1
    <3>2. CASE h # g
      BY <3>2, RegMoveOthers DEF Settled
    <3> QED BY <3>1, <3>2
  <2>2. /\ idTypes[s][i] = reg[i] /\ extTypes[i] = reg[i]
        /\ reg[i] # None => funcs[s][reg[i]] = Ext(i) /\ funcs[s][Base(reg[i])] = Ext(i)
    BY <2>1 DEF IInv, Agree
  <2>3. idTypes'[s][i] = idTypes[s][i] /\ extTypes'[i] = extTypes[i] /\ reg'[i] = reg[i]
    BY <1>2 DEF RegMove
  <2>4. ASSUME reg[i] # None
        PROVE  funcs'[s][reg[i]] = funcs[s][reg[i]] /\ funcs'[s][Base(reg[i])] = funcs[s][Base(reg[i])]
    <3>1. Base(reg[i]) \notin c.bases
      BY <1>2, <2>4 DEF HeldIn
    <3>2. reg[i] \in Types
      BY <2>4, RegistryAssumption DEF IInv, TypeOK, Registered, Types
    <3> QED BY <3>1, <3>2, Family DEF RegMove
  <2> QED BY <2>2, <2>3, <2>4
<1> QED BY <1>1, <1>2

(* Entries of types that are not being registered stay right.               *)
LEMMA RegMoveCached ==
  ASSUME Disciplined, IInv, NEW g \in Goroutines, NEW c, RegMove(g, c)
  PROVE  Cached'
<1> USE RegMoveFacts
<1> SUFFICES ASSUME NEW s \in Sides, NEW x \in Types, Still(x)'
             PROVE  /\ funcs'[s][x] \in {Absent, MeaningIn(reg', user', s, x)}
                    /\ x \in user'[s] => funcs'[s][x] = User
  BY DEF Cached
<1>1. user' = user /\ c.id \in AllIds
  BY DEF RegMove, AllIds
<1>2. CASE Base(x) \notin c.bases
  <2>1. Still(x)
    <3> SUFFICES ASSUME NEW h \in Goroutines, task[h].op = "reg" PROVE Base(x) \notin task[h].bases
      BY DEF Still
    <3>1. CASE h = g
      BY <1>2, <3>1
    <3>2. CASE h # g
      BY <3>2, RegMoveOthers DEF Still
    <3> QED BY <3>1, <3>2
  <2>2. /\ funcs[s][x] \in {Absent, MeaningIn(reg, user, s, x)}
        /\ x \in user[s] => funcs[s][x] = User
    BY <2>1 DEF IInv, Cached
  <2>3. funcs'[s][x] = funcs[s][x] /\ MeaningIn(reg', user', s, x) = MeaningIn(reg, user, s, x)
    BY <1>2 DEF RegMove
  <2> QED BY <1>1, <2>2, <2>3
<1>3. CASE Base(x) \in c.bases
  <2>1. c.pc = "done" /\ c.s = "dec" /\ reg' = [reg EXCEPT ![c.id] = c.t]
    BY <1>3 DEF RegMove, Goes, Moved, Lands, Still
  <2>2. Place(c, "enc") = "done" /\ Place(c, "dec") = "done"
    BY <2>1 DEF Place
  <2>3. reg'[c.id] = c.t
    BY <1>1, <2>1 DEF IInv, TypeOK
  <2>4. OnSide("done", c.id, c.t, reg[c.id], funcs'[s], idTypes'[s])
    BY <2>2 DEF RegMove, Midway, Sides
  <2>5. /\ reg[c.id] \notin {None, c.t} => funcs'[s][reg[c.id]] = Absent /\ funcs'[s][Base(reg[c.id])] = Absent
        /\ c.t # None => funcs'[s][c.t] = Ext(c.id) /\ funcs'[s][Base(c.t)] = Ext(c.id)
    BY <2>4 DEF OnSide, ToStoreElem, ToStoreType, ToStoreId, ToStoreExt, ToDeleteElem, ToDeleteType,
                ToDeleteExt, ToDeleteId
  <2>6. x \in user[s] => Base(x) \in user[s]
    BY RegistryAssumption, Family DEF IInv, TypeOK
  <2>7. CASE c.t # None /\ Base(x) = Base(c.t)
    <3>1. c.t \in Pointers
      BY <2>7 DEF Disciplined
    <3>2. x = c.t \/ x = Base(c.t)
      BY <2>7, <3>1, Family
    <3>3. Base(x) \in HeldIn(reg', c.id)
      BY <2>3, <2>7 DEF HeldIn
    <3>4. \A j \in AllIds : j # c.id => Base(x) \notin HeldIn(reg', j)
      BY <1>3
    <3>5. MeaningIn(reg', user', s, x) = Ext(c.id)
      BY <1>1, <3>3, <3>4, MeaningHeld
    <3>6. x \notin user[s]
      BY <2>6, <2>7 DEF IInv, Sole, RegMove
    <3> QED BY <1>1, <2>5, <2>7, <3>2, <3>5, <3>6
  <2>8. CASE Base(x) \in HeldIn(reg, c.id) /\ ~(c.t # None /\ Base(x) = Base(c.t))
    <3>1. reg[c.id] # None /\ Base(x) = Base(reg[c.id]) /\ reg[c.id] # c.t
      BY <2>8 DEF HeldIn
    <3>2. reg[c.id] \in Pointers
      BY <3>1 DEF IInv, Sole, Disciplined
    <3>3. x = reg[c.id] \/ x = Base(reg[c.id])
      BY <3>1, <3>2, Family
    <3>4. x \notin user[s]
      BY <1>1, <2>6, <2>8 DEF IInv, Sole
    <3> QED BY <1>1, <2>5, <3>1, <3>3, <3>4
  <2> QED BY <1>3, <2>7, <2>8 DEF RegMove, Shape
<1> QED BY <1>2, <1>3

(* A step of a registration keeps the invariant.                            *)
LEMMA RegMoveKeeps ==
  ASSUME Disciplined, IInv, TypeOK', NEW g \in Goroutines, NEW c, RegMove(g, c)
  PROVE  IInv'
BY RegMoveCalls, RegMoveApart, RegMoveSole, RegMoveAgree, RegMoveCached DEF IInv

-----------------------------------------------------------------------------
(***************************************************************************)
(* The steps of a registration, one by one                                 *)
(***************************************************************************)
Deletes == {"deleteId", "deleteExt", "deleteType", "deleteElem"}
Stores == {"storeExt", "storeId", "storeType", "storeElem"}

(* What the invariant says of a registration in progress.                   *)
RegState(g) ==
  LET b == task[g]
      old == reg[b.id]
  IN /\ b \in ExtCalls /\ b.s \in Sides /\ b.id \in AllIds
     /\ Shape(b, reg)
     /\ b.t \in Pointers \cup {None} /\ old \in Pointers \cup {None} /\ None \notin Types
     /\ OnSide(b.pc, b.id, b.t, old, funcs[b.s], idTypes[b.s])
     /\ b.s = "dec" => OnExt(b.pc, b.id, b.t, old, extTypes)
     /\ funcs \in [Sides -> [Types -> Funcs \cup {Absent}]]
     /\ idTypes \in [Sides -> [AllIds -> Registered \cup {None}]]
     /\ extTypes \in [AllIds -> Registered \cup {None}]

(* It follows from the invariant.                                           *)
LEMMA InRegistration ==
  ASSUME Disciplined, IInv, NEW g \in Goroutines, task[g].op = "reg"
  PROVE  RegState(g)
<1> DEFINE b == task[g]
           old == reg[b.id]
<1>1. b \in ExtCalls
  BY TaskTypes DEF IInv
<1>2. b.s \in Sides /\ b.id \in AllIds /\ b.id \in Ids
  BY <1>1 DEF ExtCalls, AllIds
<1>3. Shape(b, reg) /\ Midway(b, funcs, idTypes, extTypes, reg)
  BY DEF IInv, Calls, CallOK
<1>4. b.t \in Pointers \cup {None}
  BY <1>1 DEF ExtCalls, Disciplined
<1>5. old \in Pointers \cup {None}
  BY <1>2 DEF IInv, Sole, Disciplined
<1>6. Place(b, b.s) = b.pc
  BY DEF Place
<1>7. OnSide(b.pc, b.id, b.t, old, funcs[b.s], idTypes[b.s])
  BY <1>2, <1>3, <1>6 DEF Midway
<1>8. b.s = "dec" => OnExt(b.pc, b.id, b.t, old, extTypes)
  BY <1>3, <1>6 DEF Midway
<1>9. None \notin Types
  BY RegistryAssumption
<1> QED BY <1>1, <1>2, <1>3, <1>4, <1>5, <1>7, <1>8, <1>9 DEF IInv, TypeOK, RegState

(* A step that takes its side from b to p with the maps left as they should *)
(* be.                                                                      *)
LEMMA Advance ==
  ASSUME Disciplined, IInv, NEW g \in Goroutines, task[g].op = "reg",
         NEW c, NEW p, Goes(g, c), At(task[g], c, p), user' = user,
         p \in Deletes => task[g].pc \in Deletes,
         p \in Stores => task[g].t # None,
         p \in {"deleteExt", "storeExt"} => task[g].s = "dec",
         OnSide(p, task[g].id, task[g].t, reg[task[g].id], funcs'[task[g].s], idTypes'[task[g].s]),
         \/ task[g].s = "dec" /\ OnExt(p, task[g].id, task[g].t, reg[task[g].id], extTypes')
         \/ task[g].s = "enc" /\ extTypes' = extTypes,
         \A s \in Sides : s # task[g].s => funcs'[s] = funcs[s] /\ idTypes'[s] = idTypes[s],
         \A x \in Types : Base(x) \notin task[g].bases => funcs'[task[g].s][x] = funcs[task[g].s][x],
         \A i \in AllIds : i # task[g].id => idTypes'[task[g].s][i] = idTypes[task[g].s][i],
         \A i \in AllIds : i # task[g].id => extTypes'[i] = extTypes[i]
  PROVE  RegMove(g, c)
<1> DEFINE b == task[g]
<1>1. b.s \in Sides /\ Shape(b, reg)
  BY InRegistration DEF RegState
<1>2. Midway(b, funcs, idTypes, extTypes, reg)
  BY DEF IInv, Calls, CallOK
<1>3. c.bases = b.bases /\ c.id = b.id /\ c.t = b.t
  BY DEF Goes, Moved
<1>4. Shape(c, reg)
  BY <1>1, <1>3 DEF Shape, At, Deletes, Stores
<1>5. Place(c, b.s) = p /\ \A s \in Sides : s # b.s => Place(c, s) = Place(b, s)
  BY <1>1 DEF Place, At, Sides
<1>6. ASSUME NEW s \in Sides
      PROVE  OnSide(Place(c, s), c.id, c.t, reg[c.id], funcs'[s], idTypes'[s])
  <2>1. CASE s = b.s
    BY <1>3, <1>5, <2>1
  <2>2. CASE s # b.s
    <3>1. OnSide(Place(b, s), b.id, b.t, reg[b.id], funcs[s], idTypes[s])
      BY <1>2 DEF Midway
    <3> QED BY <1>3, <1>5, <2>2, <3>1
  <2> QED BY <2>1, <2>2
<1>7. OnExt(Place(c, "dec"), c.id, c.t, reg[c.id], extTypes')
  <2>1. CASE b.s = "dec"
    BY <1>3, <1>5, <2>1
  <2>2. CASE b.s = "enc"
    <3>1. OnExt(Place(b, "dec"), b.id, b.t, reg[b.id], extTypes)
      BY <1>2 DEF Midway
    <3> QED BY <1>3, <1>5, <2>2, <3>1 DEF Sides
  <2> QED BY <1>1, <2>1, <2>2 DEF Sides
<1>8. Midway(c, funcs', idTypes', extTypes', reg)
  BY <1>6, <1>7 DEF Midway
<1>9. \A s \in Sides : \A x \in Types : Base(x) \notin c.bases => funcs'[s][x] = funcs[s][x]
  BY <1>3
<1>10. \A s \in Sides : \A i \in AllIds : i # c.id => idTypes'[s][i] = idTypes[s][i]
  BY <1>3
<1>11. \A i \in AllIds : i # c.id => extTypes'[i] = extTypes[i]
  BY <1>3
<1> QED BY <1>4, <1>8, <1>9, <1>10, <1>11 DEF RegMove

(* The steps in order, for the definitions above.                           *)
LEMMA StepOrder ==
  /\ \A p \in {"load", "deleteId"} : p \in ToDeleteId
  /\ \A p \in {"deleteExt", "deleteType", "deleteElem", "storeExt", "storeId",
               "storeType", "storeElem", "done"} : p \notin ToDeleteId
  /\ \A p \in {"load", "deleteId", "deleteExt"} : p \in ToDeleteExt
  /\ \A p \in {"deleteType", "deleteElem", "storeExt", "storeId", "storeType",
               "storeElem", "done"} : p \notin ToDeleteExt
  /\ \A p \in {"load", "deleteId", "deleteExt", "deleteType"} : p \in ToDeleteType
  /\ \A p \in {"deleteElem", "storeExt", "storeId", "storeType", "storeElem",
               "done"} : p \notin ToDeleteType
  /\ \A p \in {"load", "deleteId", "deleteExt", "deleteType", "deleteElem"} : p \in ToDeleteElem
  /\ \A p \in {"storeExt", "storeId", "storeType", "storeElem", "done"} : p \notin ToDeleteElem
  /\ \A p \in {"load", "deleteId", "deleteExt", "deleteType", "deleteElem",
               "storeExt"} : p \in ToStoreExt
  /\ \A p \in {"storeId", "storeType", "storeElem", "done"} : p \notin ToStoreExt
  /\ \A p \in {"load", "deleteId", "deleteExt", "deleteType", "deleteElem",
               "storeExt", "storeId"} : p \in ToStoreId
  /\ \A p \in {"storeType", "storeElem", "done"} : p \notin ToStoreId
  /\ \A p \in {"load", "deleteId", "deleteExt", "deleteType", "deleteElem",
               "storeExt", "storeId", "storeType"} : p \in ToStoreType
  /\ \A p \in {"storeElem", "done"} : p \notin ToStoreType
  /\ \A p \in {"load", "deleteId", "deleteExt", "deleteType", "deleteElem",
               "storeExt", "storeId", "storeType", "storeElem"} : p \in ToStoreElem
  /\ \A p \in {"done"} : p \notin ToStoreElem
BY DEF ToStoreElem, ToStoreType, ToStoreId, ToStoreExt, ToDeleteElem, ToDeleteType, ToDeleteExt, ToDeleteId

(* The type of the id is loaded.                                            *)
LEMMA LoadIdMove ==
  ASSUME Disciplined, IInv, NEW g \in Goroutines, LoadId(g)
  PROVE  \E c : RegMove(g, c)
<1> DEFINE b == task[g]
           old == reg[b.id]
<1>1. b.op = "reg" /\ b.pc = "load" /\ UNCHANGED <<funcs, idTypes, extTypes, user, ops>>
  BY DEF LoadId, InCall
<1>0. RegState(g)
  BY <1>1, InRegistration
<1> USE <1>0 DEF RegState
<1>2. idTypes[b.s][b.id] = old
  BY <1>1, StepOrder DEF OnSide
<1>3. TypeOK
  BY DEF IInv
<1>4. CASE old = None
  <2>1. PICK c : Goes(g, c) /\ At(b, c, Resume(b))
    BY <1>2, <1>3, <1>4, LoadIdGoes
  <2>2. OnSide(Resume(b), b.id, b.t, old, funcs[b.s], idTypes[b.s])
    BY <1>2, <1>4, StepOrder DEF OnSide, Resume
  <2>3. b.s = "dec" => OnExt(Resume(b), b.id, b.t, old, extTypes)
    BY <1>1, <1>4, StepOrder DEF OnExt, Resume
  <2>4. /\ Resume(b) \in Stores \cup {"done"} /\ (Resume(b) \in Stores => b.t # None)
        /\ Resume(b) = "storeExt" => b.s = "dec"
    BY DEF Resume, Stores
  <2>5. RegMove(g, c)
    BY <1>1, <2>1, <2>2, <2>3, <2>4, Advance DEF Sides, Deletes, Stores
  <2> QED BY <2>5
<1>5. CASE old # None
  <2>1. PICK c : Goes(g, c) /\ c.typ = old /\ c.s = b.s /\ c.pc = "deleteId"
    BY <1>2, <1>3, <1>5, LoadIdGoes
  <2>2. c.bases = b.bases /\ c.id = b.id /\ c.t = b.t
    BY <2>1 DEF Goes, Moved
  <2>3. Shape(c, reg)
    BY <1>1, <1>5, <2>1, <2>2 DEF Shape
  <2>4. Midway(b, funcs, idTypes, extTypes, reg)
    BY <1>1 DEF IInv, Calls, CallOK
  <2>5. ASSUME NEW s \in Sides
        PROVE  OnSide(Place(c, s), c.id, c.t, reg[c.id], funcs[s], idTypes[s])
    <3>1. OnSide(Place(b, s), b.id, b.t, old, funcs[s], idTypes[s])
      BY <2>4 DEF Midway
    <3>2. Place(c, s) = Place(b, s) \/ (Place(b, s) = "load" /\ Place(c, s) = "deleteId")
      BY <1>1, <2>1 DEF Place
    <3> QED BY <2>2, <3>1, <3>2, StepOrder DEF OnSide
  <2>6. OnExt(Place(c, "dec"), c.id, c.t, reg[c.id], extTypes)
    <3>1. OnExt(Place(b, "dec"), b.id, b.t, old, extTypes)
      BY <2>4 DEF Midway
    <3>2. Place(c, "dec") = Place(b, "dec") \/ (Place(b, "dec") = "load" /\ Place(c, "dec") = "deleteId")
      BY <1>1, <2>1 DEF Place
    <3> QED BY <2>2, <3>1, <3>2, StepOrder DEF OnExt
  <2>7. RegMove(g, c)
    BY <1>1, <2>1, <2>3, <2>5, <2>6 DEF RegMove, Midway
  <2> QED BY <2>7
<1> QED BY <1>4, <1>5

(* The entry of the id is deleted.                                          *)
LEMMA DeleteIdMove ==
  ASSUME Disciplined, IInv, NEW g \in Goroutines, DeleteId(g)
  PROVE  \E c : RegMove(g, c)
<1> DEFINE b == task[g]
           old == reg[b.id]
           p == IF b.s = "dec" THEN "deleteExt" ELSE "deleteType"
<1>1. b.op = "reg" /\ b.pc = "deleteId" /\ UNCHANGED <<funcs, extTypes, user>>
  BY DEF DeleteId, InCall
<1>0. RegState(g)
  BY <1>1, InRegistration
<1> USE <1>0 DEF RegState
<1>2. TypeOK
  BY DEF IInv
<1>3. PICK c : Goes(g, c) /\ At(b, c, p)
  BY <1>2, RegGoes
<1>4. idTypes' = [idTypes EXCEPT ![b.s][b.id] = None]
  BY DEF DeleteId
<1>5. /\ idTypes'[b.s][b.id] = None
      /\ \A i \in AllIds : i # b.id => idTypes'[b.s][i] = idTypes[b.s][i]
      /\ \A s \in Sides : s # b.s => idTypes'[s] = idTypes[s]
  BY <1>1, <1>4
<1>6. OnSide(p, b.id, b.t, old, funcs'[b.s], idTypes'[b.s])
  BY <1>1, <1>5, StepOrder DEF OnSide
<1>7. b.s = "dec" => OnExt(p, b.id, b.t, old, extTypes')
  BY <1>1, StepOrder DEF OnExt
<1>8. RegMove(g, c)
  BY <1>1, <1>3, <1>5, <1>6, <1>7, Advance DEF Sides, Deletes, Stores
<1> QED BY <1>8

(* The decoder's extInfo is deleted.                                        *)
LEMMA DeleteExtMove ==
  ASSUME Disciplined, IInv, NEW g \in Goroutines, DeleteExt(g)
  PROVE  \E c : RegMove(g, c)
<1> DEFINE b == task[g]
           old == reg[b.id]
<1>1. b.op = "reg" /\ b.pc = "deleteExt" /\ UNCHANGED <<funcs, idTypes, user>>
  BY DEF DeleteExt, InCall
<1>0. RegState(g)
  BY <1>1, InRegistration
<1> USE <1>0 DEF RegState
<1>2. TypeOK
  BY DEF IInv
<1>3. PICK c : Goes(g, c) /\ At(b, c, "deleteType")
  BY <1>2, RegGoes
<1>4. extTypes' = [extTypes EXCEPT ![b.id] = None]
  BY DEF DeleteExt
<1>5. extTypes'[b.id] = None /\ \A i \in AllIds : i # b.id => extTypes'[i] = extTypes[i]
  BY <1>1, <1>4
<1>6. OnSide("deleteType", b.id, b.t, old, funcs'[b.s], idTypes'[b.s])
  BY <1>1, StepOrder DEF OnSide
<1>7. b.s = "dec" /\ OnExt("deleteType", b.id, b.t, old, extTypes')
  BY <1>1, <1>5, StepOrder DEF OnExt, Shape
<1>8. RegMove(g, c)
  BY <1>1, <1>3, <1>5, <1>6, <1>7, Advance DEF Sides, Deletes, Stores
<1> QED BY <1>8

(* The function of the type is deleted.                                     *)
LEMMA DeleteTypeMove ==
  ASSUME Disciplined, IInv, NEW g \in Goroutines, DeleteType(g)
  PROVE  \E c : RegMove(g, c)
<1> DEFINE b == task[g]
           old == reg[b.id]
<1>1. b.op = "reg" /\ b.pc = "deleteType" /\ UNCHANGED <<idTypes, extTypes, user>>
  BY DEF DeleteType, InCall
<1>0. RegState(g)
  BY <1>1, InRegistration
<1> USE <1>0 DEF RegState
<1>2. b.typ = old /\ old \in Pointers /\ Base(old) \in b.bases
  BY <1>1 DEF Shape, HeldIn
<1>3. TypeOK
  BY DEF IInv
<1>4. PICK c : Goes(g, c) /\ At(b, c, "deleteElem")
  BY <1>2, <1>3, RegGoes
<1>5. funcs' = [funcs EXCEPT ![b.s][old] = Absent]
  BY <1>2 DEF DeleteType
<1>6. old \in Types /\ Base(old) # old /\ Base(old) \in Types
  BY <1>2, Family, BaseType, RegistryAssumption
<1>7. /\ funcs'[b.s][old] = Absent
      /\ \A x \in Types : x # old => funcs'[b.s][x] = funcs[b.s][x]
      /\ \A s \in Sides : s # b.s => funcs'[s] = funcs[s]
  BY <1>1, <1>5, <1>6
<1>8. OnSide("deleteElem", b.id, b.t, old, funcs'[b.s], idTypes'[b.s])
  BY <1>1, <1>6, <1>7, StepOrder DEF OnSide
<1>9. b.s = "dec" => OnExt("deleteElem", b.id, b.t, old, extTypes')
  BY <1>1, StepOrder DEF OnExt
<1>10. \A x \in Types : Base(x) \notin b.bases => funcs'[b.s][x] = funcs[b.s][x]
  BY <1>2, <1>7
<1>11. RegMove(g, c)
  BY <1>1, <1>4, <1>7, <1>8, <1>9, <1>10, Advance DEF Sides, Deletes, Stores
<1> QED BY <1>11

(* The function of the element type is deleted.                             *)
LEMMA DeleteElemMove ==
  ASSUME Disciplined, IInv, NEW g \in Goroutines, DeleteElem(g)
  PROVE  \E c : RegMove(g, c)
<1> DEFINE b == task[g]
           old == reg[b.id]
<1>1. b.op = "reg" /\ b.pc = "deleteElem" /\ UNCHANGED <<idTypes, extTypes, user>>
  BY DEF DeleteElem, InCall
<1>0. RegState(g)
  BY <1>1, InRegistration
<1> USE <1>0 DEF RegState
<1>2. b.typ = old /\ old \in Pointers /\ Base(old) \in b.bases
  BY <1>1 DEF Shape, HeldIn
<1>3. TypeOK
  BY DEF IInv
<1>4. PICK c : Goes(g, c) /\ At(b, c, Resume(b))
  BY <1>3, RegGoes
<1>5. old \in Types /\ Base(old) # old /\ Base(old) \in Types /\ Base(old) = ElemOf[old] /\ Base(Base(old)) = Base(old)
  BY <1>2, Family, BaseType, RegistryAssumption
<1>6. funcs' = [funcs EXCEPT ![b.s][Base(old)] = Absent]
  BY <1>2, <1>5 DEF DeleteElem
<1>7. /\ funcs'[b.s][Base(old)] = Absent
      /\ \A x \in Types : x # Base(old) => funcs'[b.s][x] = funcs[b.s][x]
      /\ \A s \in Sides : s # b.s => funcs'[s] = funcs[s]
  BY <1>1, <1>5, <1>6
<1>8. OnSide(Resume(b), b.id, b.t, old, funcs'[b.s], idTypes'[b.s])
  BY <1>1, <1>5, <1>7, StepOrder DEF OnSide, Resume
<1>9. b.s = "dec" => OnExt(Resume(b), b.id, b.t, old, extTypes')
  BY <1>1, StepOrder DEF OnExt, Resume
<1>10. \A x \in Types : Base(x) \notin b.bases => funcs'[b.s][x] = funcs[b.s][x]
  BY <1>2, <1>5, <1>7
<1>11. Resume(b) \notin Deletes /\ (Resume(b) \in Stores => b.t # None) /\ (Resume(b) = "storeExt" => b.s = "dec")
  BY DEF Resume, Stores, Deletes
<1>12. RegMove(g, c)
  BY <1>1, <1>4, <1>7, <1>8, <1>9, <1>10, <1>11, Advance DEF Sides, Deletes
<1> QED BY <1>12

(* The new extInfo is stored.                                               *)
LEMMA StoreExtMove ==
  ASSUME Disciplined, IInv, NEW g \in Goroutines, StoreExt(g)
  PROVE  \E c : RegMove(g, c)
<1> DEFINE b == task[g]
           old == reg[b.id]
<1>1. b.op = "reg" /\ b.pc = "storeExt" /\ UNCHANGED <<funcs, idTypes, user>>
  BY DEF StoreExt, InCall
<1>0. RegState(g)
  BY <1>1, InRegistration
<1> USE <1>0 DEF RegState
<1>2. TypeOK
  BY DEF IInv
<1>3. PICK c : Goes(g, c) /\ At(b, c, "storeId")
  BY <1>2, RegGoes
<1>4. extTypes' = [extTypes EXCEPT ![b.id] = b.t]
  BY DEF StoreExt
<1>5. extTypes'[b.id] = b.t /\ \A i \in AllIds : i # b.id => extTypes'[i] = extTypes[i]
  BY <1>1, <1>4
<1>6. b.t # None /\ b.s = "dec"
  BY <1>1 DEF Shape
<1>7. OnSide("storeId", b.id, b.t, old, funcs'[b.s], idTypes'[b.s])
  BY <1>1, <1>6, StepOrder DEF OnSide
<1>8. OnExt("storeId", b.id, b.t, old, extTypes')
  BY <1>5, <1>6, StepOrder DEF OnExt
<1>9. RegMove(g, c)
  BY <1>1, <1>3, <1>5, <1>6, <1>7, <1>8, Advance DEF Sides, Deletes, Stores
<1> QED BY <1>9

(* The entry of the id is stored.                                           *)
LEMMA StoreIdMove ==
  ASSUME Disciplined, IInv, NEW g \in Goroutines, StoreId(g)
  PROVE  \E c : RegMove(g, c)
<1> DEFINE b == task[g]
           old == reg[b.id]
<1>1. b.op = "reg" /\ b.pc = "storeId" /\ UNCHANGED <<funcs, extTypes, user>>
  BY DEF StoreId, InCall
<1>0. RegState(g)
  BY <1>1, InRegistration
<1> USE <1>0 DEF RegState
<1>2. TypeOK
  BY DEF IInv
<1>3. PICK c : Goes(g, c) /\ At(b, c, "storeType")
  BY <1>2, RegGoes
<1>4. idTypes' = [idTypes EXCEPT ![b.s][b.id] = b.t]
  BY DEF StoreId
<1>5. /\ idTypes'[b.s][b.id] = b.t
      /\ \A i \in AllIds : i # b.id => idTypes'[b.s][i] = idTypes[b.s][i]
      /\ \A s \in Sides : s # b.s => idTypes'[s] = idTypes[s]
  BY <1>1, <1>4
<1>6. b.t # None
  BY <1>1 DEF Shape
<1>7. OnSide("storeType", b.id, b.t, old, funcs'[b.s], idTypes'[b.s])
  BY <1>1, <1>5, <1>6, StepOrder DEF OnSide
<1>8. b.s = "dec" => OnExt("storeType", b.id, b.t, old, extTypes')
  BY <1>1, StepOrder DEF OnExt
<1>9. RegMove(g, c)
  BY <1>1, <1>3, <1>5, <1>6, <1>7, <1>8, Advance DEF Sides, Deletes, Stores
<1> QED BY <1>9

(* The function of the type is stored.                                      *)
LEMMA StoreTypeMove ==
  ASSUME Disciplined, IInv, NEW g \in Goroutines, StoreType(g)
  PROVE  \E c : RegMove(g, c)
<1> DEFINE b == task[g]
           old == reg[b.id]
<1>1. b.op = "reg" /\ b.pc = "storeType" /\ UNCHANGED <<idTypes, extTypes, user>>
  BY DEF StoreType, InCall
<1>0. RegState(g)
  BY <1>1, InRegistration
<1> USE <1>0 DEF RegState
<1>2. b.t \in Pointers /\ b.t # None /\ Base(b.t) \in b.bases
  BY <1>1 DEF Shape
<1>3. TypeOK
  BY DEF IInv
<1>4. PICK c : Goes(g, c) /\ At(b, c, "storeElem")
  BY <1>2, <1>3, RegGoes
<1>5. funcs' = [funcs EXCEPT ![b.s][b.t] = Ext(b.id)]
  BY DEF StoreType
<1>6. b.t \in Types /\ (old # None => old \in Types /\ Base(old) \in Types /\ Base(old) # b.t)
  BY <1>1, <1>2, Family, BaseType, RegistryAssumption
<1>7. /\ funcs'[b.s][b.t] = Ext(b.id)
      /\ \A x \in Types : x # b.t => funcs'[b.s][x] = funcs[b.s][x]
      /\ \A s \in Sides : s # b.s => funcs'[s] = funcs[s]
  BY <1>1, <1>5, <1>6
<1>8. OnSide("storeElem", b.id, b.t, old, funcs'[b.s], idTypes'[b.s])
  BY <1>1, <1>2, <1>6, <1>7, StepOrder DEF OnSide
<1>9. b.s = "dec" => OnExt("storeElem", b.id, b.t, old, extTypes')
  BY <1>1, StepOrder DEF OnExt
<1>10. \A x \in Types : Base(x) \notin b.bases => funcs'[b.s][x] = funcs[b.s][x]
  BY <1>2, <1>7
<1>11. RegMove(g, c)
  BY <1>1, <1>2, <1>4, <1>7, <1>8, <1>9, <1>10, Advance DEF Sides, Deletes, Stores
<1> QED BY <1>11

(* The function of the element type is stored.                              *)
LEMMA StoreElemMove ==
  ASSUME Disciplined, IInv, NEW g \in Goroutines, StoreElem(g)
  PROVE  \E c : RegMove(g, c)
<1> DEFINE b == task[g]
           old == reg[b.id]
<1>1. b.op = "reg" /\ b.pc = "storeElem" /\ UNCHANGED <<idTypes, extTypes, user>>
  BY DEF StoreElem, InCall
<1>0. RegState(g)
  BY <1>1, InRegistration
<1> USE <1>0 DEF RegState
<1>2. b.t \in Pointers /\ b.t # None /\ Base(b.t) \in b.bases
  BY <1>1 DEF Shape
<1>3. TypeOK
  BY DEF IInv
<1>4. PICK c : Goes(g, c) /\ At(b, c, "done")
  BY <1>3, RegGoes
<1>5. /\ b.t \in Types /\ Base(b.t) \in Values /\ Base(b.t) = ElemOf[b.t] /\ Base(Base(b.t)) = Base(b.t)
      /\ Base(b.t) \in Types /\ Base(b.t) # b.t
  BY <1>2, Family, BaseType, RegistryAssumption
<1>6. ASSUME old \notin {None, b.t}
      PROVE  old \in Types /\ Base(old) \in Types /\ old # Base(b.t) /\ Base(old) # Base(b.t)
  <2>1. old \in Pointers
    BY <1>1, <1>6
  <2> QED BY <1>2, <1>5, <1>6, <2>1, Family, RegistryAssumption
<1>7. funcs' = [funcs EXCEPT ![b.s][Base(b.t)] = Ext(b.id)]
  BY <1>5 DEF StoreElem
<1>8. /\ funcs'[b.s][Base(b.t)] = Ext(b.id)
      /\ \A x \in Types : x # Base(b.t) => funcs'[b.s][x] = funcs[b.s][x]
      /\ \A s \in Sides : s # b.s => funcs'[s] = funcs[s]
  BY <1>1, <1>5, <1>7
<1>9. OnSide("done", b.id, b.t, old, funcs'[b.s], idTypes'[b.s])
  BY <1>1, <1>2, <1>5, <1>6, <1>8, StepOrder DEF OnSide
<1>10. b.s = "dec" => OnExt("done", b.id, b.t, old, extTypes')
  BY <1>1, StepOrder DEF OnExt
<1>11. \A x \in Types : Base(x) \notin b.bases => funcs'[b.s][x] = funcs[b.s][x]
  BY <1>2, <1>5, <1>8
<1>12. RegMove(g, c)
  BY <1>1, <1>2, <1>4, <1>8, <1>9, <1>10, <1>11, Advance DEF Sides, Deletes, Stores
<1> QED BY <1>12

(* Every step of a registration keeps the invariant.                        *)
LEMMA RegStepKeeps ==
  ASSUME Disciplined, IInv, NEW g \in Goroutines, RegStep(g)
  PROVE  IInv'
<1>1. \E c : RegMove(g, c)
  BY LoadIdMove, DeleteIdMove, DeleteExtMove, DeleteTypeMove, DeleteElemMove,
     StoreExtMove, StoreIdMove, StoreTypeMove, StoreElemMove DEF RegStep
<1>2. TypeOK'
  BY RegStepType DEF IInv
<1> QED BY <1>1, <1>2, RegMoveKeeps

-----------------------------------------------------------------------------
(***************************************************************************)
(* Steps that leave the maps alone: calls that begin, loads, the end of a  *)
(* lookup and of a Register                                                *)
(***************************************************************************)
LEMMA OnlyTask ==
  ASSUME IInv, TypeOK', NEW g \in Goroutines, NEW d,
         UNCHANGED <<funcs, idTypes, extTypes, reg, user>>,
         task[g].op # "reg", task'[g] = d, \A h \in Goroutines : h # g => task'[h] = task[h],
         CallOK(d, funcs, idTypes, extTypes, reg, user),
         \A h \in Goroutines : h # g =>
           /\ Busy(h) \/ d.op \in {"reg", "user"} => task[h].bases \cap d.bases = {}
           /\ task[h].op = "reg" /\ d.op = "reg" => task[h].id # d.id,
         d.op = "reg" /\ d.t # None =>
           /\ \A j \in AllIds : j # d.id => Base(d.t) \notin HeldIn(reg, j)
           /\ \A s \in Sides : Base(d.t) \notin user[s],
         d.op = "user" => \A j \in AllIds : d.t \notin HeldIn(reg, j)
  PROVE  IInv'
<1>1. Calls'
  BY DEF IInv, Calls
<1>2. Apart'
  <2> SUFFICES ASSUME NEW k \in Goroutines, NEW h \in Goroutines, k # h, Busy(k)'
               PROVE  /\ task'[k].bases \cap task'[h].bases = {}
                      /\ task'[k].op = "reg" /\ task'[h].op = "reg" => task'[k].id # task'[h].id
    BY DEF Apart
  <2>1. CASE k = g
    BY <2>1 DEF Busy
  <2>2. CASE k # g /\ h = g
    BY <2>2 DEF Busy
  <2>3. CASE k # g /\ h # g
    BY <2>3 DEF Busy, IInv, Apart
  <2> QED BY <2>1, <2>2, <2>3
<1>3. Sole'
  <2>1. \A i : HeldIn(reg, i)' = HeldIn(reg, i)
    BY DEF HeldIn
  <2>2. ASSUME NEW h \in Goroutines, task'[h].op = "reg", task'[h].t # None
        PROVE  /\ \A j \in AllIds : j # task'[h].id => Base(task'[h].t) \notin HeldIn(reg, j)
               /\ \A s \in Sides : Base(task'[h].t) \notin user[s]
    <3>1. CASE h = g
      BY <2>2, <3>1
    <3>2. CASE h # g
      BY <2>2, <3>2 DEF IInv, Sole
    <3> QED BY <3>1, <3>2
  <2>3. ASSUME NEW h \in Goroutines, task'[h].op = "user", NEW j \in AllIds
        PROVE  task'[h].t \notin HeldIn(reg, j)
    <3>1. CASE h = g
      BY <2>3, <3>1
    <3>2. CASE h # g
      BY <2>3, <3>2 DEF IInv, Sole
    <3> QED BY <3>1, <3>2
  <2> QED BY <2>1, <2>2, <2>3 DEF IInv, Sole
<1>4. \A i : Settled(i)' => Settled(i)
  BY DEF Settled
<1>5. \A x : Still(x)' => Still(x)
  BY DEF Still
<1>6. Agree'
  BY <1>4 DEF IInv, Agree
<1>7. Cached'
  BY <1>5 DEF IInv, Cached
<1> QED BY <1>1, <1>2, <1>3, <1>6, <1>7 DEF IInv

(* An id that no call registers.                                            *)
LEMMA FreeIdSettled ==
  ASSUME Disciplined, NEW id, FreeId(id)
  PROVE  Settled(id)
BY DEF Disciplined, FreeId, Settled

(* RegisterExt, RegisterExtEncoder and UnregisterExt begin.                 *)
LEMMA ExtCallKeeps ==
  ASSUME Disciplined, IInv, TypeOK', NEW g \in Goroutines, NEW id \in Ids,
         NEW t \in Registrable \cup {None}, NEW bases,
         bases = (IF t = None THEN {} ELSE {Base(t)}) \cup Held(id),
         Free(bases), FreeId(id), t # None => OneRegistration(t, AllIds \ {id}),
         Begin(g, ExtCall(id, t, bases))
  PROVE  IInv'
<1> DEFINE d == ExtCall(id, t, bases)
<1>1. /\ task[g] = Idle /\ UNCHANGED <<funcs, idTypes, extTypes, reg, user>> /\ Set(g, d)
  BY DEF Begin, Set
<1>2. task'[g] = d /\ \A h \in Goroutines : h # g => task'[h] = task[h]
  BY <1>1, SetType DEF IInv
<1>3. task[g].op # "reg"
  BY <1>1 DEF Idle
<1>4. /\ d.op = "reg" /\ d.bases = bases /\ d.id = id /\ d.t = t
      /\ d.s = "enc" /\ d.pc = "load"
  BY DEF ExtCall
<1> HIDE DEF d
<1>5. \A i : Held(i) = HeldIn(reg, i)
  BY HeldSame
<1>6. Shape(d, reg)
  BY <1>4, <1>5 DEF Shape
<1>7. Midway(d, funcs, idTypes, extTypes, reg)
  <2>1. Place(d, "enc") = "load" /\ Place(d, "dec") = "load"
    BY <1>4 DEF Place
  <2>2. Settled(id) /\ id \in AllIds
    BY FreeIdSettled DEF AllIds
  <2>3. ASSUME NEW s \in Sides
        PROVE  /\ idTypes[s][id] = reg[id] /\ extTypes[id] = reg[id]
               /\ reg[id] # None => funcs[s][reg[id]] = Ext(id) /\ funcs[s][Base(reg[id])] = Ext(id)
    BY <2>2 DEF IInv, Agree
  <2>4. ASSUME NEW s \in Sides PROVE OnSide("load", id, t, reg[id], funcs[s], idTypes[s])
    BY <2>3, StepOrder DEF OnSide
  <2>5. "dec" \in Sides /\ \A s \in Sides : s = "enc" \/ s = "dec"
    BY DEF Sides
  <2>6. OnExt("load", id, t, reg[id], extTypes)
    BY <2>3, <2>5, StepOrder DEF OnExt
  <2> QED BY <1>4, <2>1, <2>4, <2>5, <2>6 DEF Midway
<1>8. CallOK(d, funcs, idTypes, extTypes, reg, user)
  BY <1>4, <1>6, <1>7 DEF CallOK
<1>9. \A h \in Goroutines : h # g =>
        /\ Busy(h) \/ d.op \in {"reg", "user"} => task[h].bases \cap d.bases = {}
        /\ task[h].op = "reg" /\ d.op = "reg" => task[h].id # d.id
  BY <1>4 DEF Disciplined, Free, FreeId
<1>10. d.op = "reg" /\ d.t # None =>
         /\ \A j \in AllIds : j # d.id => Base(d.t) \notin HeldIn(reg, j)
         /\ \A s \in Sides : Base(d.t) \notin user[s]
  BY <1>4, <1>5 DEF OneRegistration, Disciplined
<1>11. d.op = "user" => \A j \in AllIds : d.t \notin HeldIn(reg, j)
  BY <1>4
<1> QED BY <1>1, <1>2, <1>3, <1>8, <1>9, <1>10, <1>11, OnlyTask

(* A call begins.                                                           *)
LEMMA CallKeeps ==
  ASSUME Disciplined, IInv, NEW g \in Goroutines, Call(g)
  PROVE  IInv'
<1>1. TypeOK /\ TypeOK'
  BY CallType DEF IInv
<1>2. ASSUME NEW id \in Ids, NEW t \in Registrable, RegisterExt(g, id, t) PROVE IInv'
  <2>1. t # None
    BY RegistryAssumption
  <2> QED BY <1>1, <1>2, <2>1, ExtCallKeeps DEF RegisterExt
<1>3. ASSUME NEW id \in Ids, UnregisterExt(g, id) PROVE IInv'
  BY <1>1, <1>3, ExtCallKeeps DEF UnregisterExt
<1>4. ASSUME NEW t \in UserTypes, NEW sides \in SUBSET Sides, Register(g, t, sides) PROVE IInv'
  <2> DEFINE d == [op |-> "user", bases |-> {t}, t |-> t, sides |-> sides]
  <2>1. task[g] = Idle /\ UNCHANGED <<funcs, idTypes, extTypes, reg, user>> /\ Set(g, d)
    BY <1>4 DEF Register, Begin, Set
  <2>2. task'[g] = d /\ \A h \in Goroutines : h # g => task'[h] = task[h]
    BY <1>1, <2>1, SetType
  <2>3. task[g].op # "reg"
    BY <2>1 DEF Idle
  <2>4. d.op = "user" /\ d.bases = {t} /\ d.t = t /\ d.sides = sides
    OBVIOUS
  <2> HIDE DEF d
  <2>5. Base(t) = t
    BY Family, RegistryAssumption
  <2>6. CallOK(d, funcs, idTypes, extTypes, reg, user)
    BY <1>4, <2>4 DEF Register, Disciplined, CallOK, Fresh
  <2>7. \A h \in Goroutines : task[h].bases \cap d.bases = {}
    BY <1>4, <2>4 DEF Register, Disciplined, Free
  <2>8. \A j \in AllIds : d.t \notin HeldIn(reg, j)
    BY <1>4, <2>4, <2>5, HeldSame DEF Register, Disciplined, OneRegistration
  <2> QED BY <1>1, <2>1, <2>2, <2>3, <2>4, <2>6, <2>7, <2>8, OnlyTask
<1>5. ASSUME NEW s \in Sides, NEW t \in Types, Get(g, s, t) PROVE IInv'
  <2> DEFINE d == [op |-> "get", bases |-> {Base(t)}, s |-> s, typ |-> t, at |-> t, pc |-> "load", f |-> Absent]
  <2>1. task[g] = Idle /\ UNCHANGED <<funcs, idTypes, extTypes, reg, user>> /\ Set(g, d)
    BY <1>5 DEF Get, Begin, Set
  <2>2. task'[g] = d /\ \A h \in Goroutines : h # g => task'[h] = task[h]
    BY <1>1, <2>1, SetType
  <2>3. task[g].op # "reg"
    BY <2>1 DEF Idle
  <2>4. d.op = "get" /\ d.bases = {Base(t)} /\ d.typ = t /\ d.at = t /\ d.pc = "load"
    OBVIOUS
  <2> HIDE DEF d
  <2>5. CallOK(d, funcs, idTypes, extTypes, reg, user)
    BY <2>4 DEF CallOK, Found
  <2>6. \A h \in Goroutines : Busy(h) => task[h].bases \cap d.bases = {}
    BY <1>5, <2>4 DEF Get, Disciplined
  <2> QED BY <1>1, <2>1, <2>2, <2>3, <2>4, <2>5, <2>6, OnlyTask
<1> QED BY <1>2, <1>3, <1>4, <1>5 DEF Call

-----------------------------------------------------------------------------
(***************************************************************************)
(* Lookups                                                                 *)
(***************************************************************************)
(* No registration works on the types of a lookup.                          *)
LEMMA InLookup ==
  ASSUME IInv, NEW g \in Goroutines, task[g].op = "get"
  PROVE  LET b == task[g]
         IN /\ b \in GetCalls /\ b.s \in Sides /\ b.typ \in Types /\ b.at \in Types
            /\ Found(b, reg, user)
            /\ Base(b.at) = Base(b.typ) /\ b.bases = {Base(b.typ)}
            /\ \A h \in Goroutines : Busy(h) => h # g /\ Base(b.typ) \notin task[h].bases
            /\ \A x \in Types : Base(x) = Base(b.typ) => Still(x)
            /\ \A i \in AllIds : Base(b.typ) \in HeldIn(reg, i) => Settled(i)
<1> DEFINE b == task[g]
<1>1. b \in GetCalls
  BY TaskTypes DEF IInv
<1>2. b.s \in Sides /\ b.typ \in Types /\ b.at \in Types
  BY <1>1 DEF GetCalls
<1>3. Found(b, reg, user)
  BY DEF IInv, Calls, CallOK
<1>4. Base(b.at) = Base(b.typ) /\ b.bases = {Base(b.typ)}
  BY <1>2, <1>3, Family DEF Found
<1>5. ASSUME NEW h \in Goroutines, Busy(h) PROVE h # g /\ Base(b.typ) \notin task[h].bases
  <2>1. h # g
    BY <1>5 DEF Busy
  <2> QED BY <1>4, <1>5, <2>1 DEF IInv, Apart
<1>6. ASSUME NEW x \in Types, Base(x) = Base(b.typ) PROVE Still(x)
  BY <1>5, <1>6 DEF Still, Busy
<1>7. ASSUME NEW i \in AllIds, Base(b.typ) \in HeldIn(reg, i) PROVE Settled(i)
  <2> SUFFICES ASSUME NEW h \in Goroutines, task[h].op = "reg", task[h].id = i PROVE FALSE
    BY DEF Settled
  <2>1. HeldIn(reg, i) \subseteq task[h].bases
    BY DEF IInv, Calls, CallOK, Shape
  <2>2. Busy(h)
    BY DEF Busy
  <2> QED BY <1>5, <1>7, <2>1, <2>2
<1> QED BY <1>1, <1>2, <1>3, <1>4, <1>5, <1>6, <1>7

(* A value type without an entry has no registration.                       *)
LEMMA NoEntry ==
  ASSUME IInv, NEW g \in Goroutines, task[g].op = "get",
         funcs[task[g].s][Base(task[g].typ)] = Absent,
         NEW x \in Types, Base(x) = Base(task[g].typ)
  PROVE  MeaningIn(reg, user, task[g].s, x) = compute(x)
<1> DEFINE b == task[g]
           v == Base(b.typ)
<1> USE InLookup
<1>1. v \in Types /\ Base(v) = v
  BY Family
<1>2. ASSUME NEW i \in AllIds, v \in HeldIn(reg, i) PROVE FALSE
  <2>1. Settled(i) /\ reg[i] # None /\ Base(reg[i]) = v
    BY <1>2 DEF HeldIn
  <2>2. funcs[b.s][v] = Ext(i)
    BY <2>1 DEF IInv, Agree
  <2> QED BY <2>2 DEF Absent, Ext
<1>3. v \notin user[b.s]
  <2>1. v \in user[b.s] => funcs[b.s][v] = User
    BY <1>1 DEF IInv, Cached
  <2> QED BY <2>1 DEF User, Absent
<1> QED BY <1>2, <1>3, MeaningFree

(* How a lookup goes on.                                                    *)
LEMMA GoToFacts ==
  ASSUME IInv, NEW g \in Goroutines, task[g].op = "get",
         NEW at, NEW pc, NEW f, GoTo(g, at, pc, f)
  PROVE  \E d : /\ task'[g] = d /\ \A h \in Goroutines : h # g => task'[h] = task[h]
                /\ d.op = "get" /\ d.bases = task[g].bases /\ d.s = task[g].s /\ d.typ = task[g].typ
                /\ d.at = at /\ d.pc = pc /\ d.f = f
<1> DEFINE d == [task[g] EXCEPT !.at = at, !.pc = pc, !.f = f]
<1>1. task[g] \in GetCalls
  BY InLookup
<1>2. /\ d.op = "get" /\ d.bases = task[g].bases /\ d.s = task[g].s /\ d.typ = task[g].typ
      /\ d.at = at /\ d.pc = pc /\ d.f = f
  BY <1>1 DEF GetCalls
<1>3. Set(g, d)
  BY DEF GoTo
<1> HIDE DEF d
<1>4. task'[g] = d /\ \A h \in Goroutines : h # g => task'[h] = task[h]
  BY <1>3, SetType DEF IInv
<1> QED BY <1>2, <1>4

(* A load: the maps stay.                                                   *)
LEMMA GoToKeeps ==
  ASSUME IInv, TypeOK', NEW g \in Goroutines, task[g].op = "get",
         UNCHANGED <<funcs, idTypes, extTypes, reg, user>>,
         NEW at, NEW pc, NEW f, GoTo(g, at, pc, f),
         at \in {task[g].typ, Base(task[g].typ)},
         pc = "elem" => at = task[g].typ /\ at \in Pointers,
         pc = "store" => f = MeaningIn(reg, user, task[g].s, at),
         pc = "use" => f = MeaningIn(reg, user, task[g].s, task[g].typ)
  PROVE  IInv'
<1>1. PICK d : /\ task'[g] = d /\ \A h \in Goroutines : h # g => task'[h] = task[h]
               /\ d.op = "get" /\ d.bases = task[g].bases /\ d.s = task[g].s /\ d.typ = task[g].typ
               /\ d.at = at /\ d.pc = pc /\ d.f = f
  BY GoToFacts
<1>2. CallOK(d, funcs, idTypes, extTypes, reg, user)
  BY <1>1, InLookup DEF CallOK, Found
<1>3. \A h \in Goroutines : h # g => (Busy(h) => task[h].bases \cap d.bases = {})
  BY <1>1, InLookup
<1> QED BY <1>1, <1>2, <1>3, OnlyTask

(* A function that means the type at which the lookup is.                   *)
LEMMA ReturnRight ==
  ASSUME Disciplined, IInv, NEW g \in Goroutines, task[g].op = "get",
         NEW f, f = MeaningIn(reg, user, task[g].s, task[g].at), Return(g, f)
  PROVE  /\ f = MeaningIn(reg, user, task[g].s, task[g].typ)
         /\ \E pc \in {"use", "store"} : GoTo(g, task[g].typ, pc, f)
<1> DEFINE b == task[g]
<1>1. \E pc \in {"use", "store"} : GoTo(g, b.typ, pc, f)
  BY DEF Return
<1>2. CASE b.at = b.typ
  BY <1>1, <1>2
<1>3. CASE b.at # b.typ
  <2>1. b.at = Base(b.typ) /\ b.typ \in Types
    BY <1>3, InLookup DEF Found
  <2>2. b.typ \in Pointers
    BY <1>3, <2>1, Family DEF Types
  <2>3. b.at = ElemOf[b.typ]
    BY <2>1, <2>2, Family
  <2> QED BY <1>1, <2>2, <2>3, MeaningElem
<1> QED BY <1>2, <1>3

(* The Load of getEncoder or getDecoder.                                    *)
LEMMA LoadTypeKeeps ==
  ASSUME Disciplined, IInv, NEW g \in Goroutines, LoadType(g)
  PROVE  IInv'
<1> DEFINE b == task[g]
           f == funcs[b.s][b.at]
<1>1. b.op = "get" /\ UNCHANGED <<funcs, idTypes, extTypes, reg, user>>
  BY DEF LoadType, InCall
<1>2. TypeOK'
  BY LookupStepType DEF IInv, LookupStep
<1> USE <1>1, InLookup
<1>3. CASE f # Absent /\ Return(g, f)
  <2>1. f = MeaningIn(reg, user, b.s, b.at)
    BY <1>3 DEF IInv, Cached
  <2>2. /\ f = MeaningIn(reg, user, b.s, b.typ)
        /\ \E pc \in {"use", "store"} : GoTo(g, b.typ, pc, f)
    BY <1>3, <2>1, ReturnRight
  <2> HIDE DEF f, b
  <2> QED BY <1>2, <2>2, GoToKeeps DEF b
<1>4. CASE f = Absent /\ b.at \in Pointers /\ GoTo(g, b.at, "elem", Absent)
  <2>1. b.at = b.typ
    BY <1>4, BaseType, RegistryAssumption DEF Found
  <2> QED BY <1>2, <1>4, <2>1, GoToKeeps
<1>5. CASE f = Absent /\ b.at \in Values /\ GoTo(g, b.at, "store", compute(b.at))
  <2>1. b.at = Base(b.typ)
    BY <1>5, Family
  <2>2. MeaningIn(reg, user, b.s, b.at) = compute(b.at)
    BY <1>5, <2>1, NoEntry
  <2> QED BY <1>2, <1>5, <2>1, <2>2, GoToKeeps
<1> QED BY <1>3, <1>4, <1>5 DEF LoadType

(* The Load of the element's entry in _getEncoder or _getDecoder.           *)
LEMMA LoadElemKeeps ==
  ASSUME Disciplined, IInv, NEW g \in Goroutines, LoadElem(g)
  PROVE  IInv'
<1> DEFINE b == task[g]
<1>1. b.op = "get" /\ b.pc = "elem" /\ UNCHANGED <<funcs, idTypes, extTypes, reg, user>>
  BY DEF LoadElem, InCall
<1>2. TypeOK'
  BY LookupStepType DEF IInv, LookupStep
<1> USE <1>1, InLookup
<1>3. b.at = b.typ /\ b.at \in Pointers
  BY DEF Found
<1>4. ElemOf[b.at] = Base(b.typ)
  BY <1>3, Family
<1>5. CASE GoTo(g, ElemOf[b.at], "load", Absent)
  BY <1>2, <1>4, <1>5, GoToKeeps
<1>6. CASE funcs[b.s][ElemOf[b.at]] = Absent /\ GoTo(g, b.at, "store", compute(b.at))
  <2>1. MeaningIn(reg, user, b.s, b.at) = compute(b.at)
    BY <1>4, <1>6, NoEntry
  <2> QED BY <1>2, <1>3, <1>6, <2>1, GoToKeeps
<1> QED BY <1>5, <1>6 DEF LoadElem

(* The function is called.                                                  *)
LEMMA UseKeeps ==
  ASSUME IInv, NEW g \in Goroutines, Use(g)
  PROVE  IInv'
<1>1. task[g].op = "get" /\ UNCHANGED <<funcs, idTypes, extTypes, reg, user>> /\ Set(g, Idle)
  BY DEF Use, InCall
<1>2. TypeOK'
  BY LookupStepType DEF IInv, LookupStep
<1>3. task'[g] = Idle /\ \A h \in Goroutines : h # g => task'[h] = task[h]
  BY <1>1, SetType DEF IInv
<1>4. Idle.op = "idle" /\ Idle.bases = {}
  BY DEF Idle
<1>5. CallOK(Idle, funcs, idTypes, extTypes, reg, user)
  BY <1>4 DEF CallOK
<1> QED BY <1>1, <1>2, <1>3, <1>4, <1>5, OnlyTask

(* A lookup stores what it has found: other lookups may work on the same    *)
(* type, registrations do not.                                              *)
LEMMA StoreFuncKeeps ==
  ASSUME Disciplined, IInv, NEW g \in Goroutines, StoreFunc(g)
  PROVE  IInv'
<1> DEFINE b == task[g]
<1>1. b.op = "get" /\ b.pc = "store" /\ UNCHANGED <<idTypes, extTypes, reg, user>>
  BY DEF StoreFunc, InCall
<1>2. TypeOK'
  BY LookupStepType DEF IInv, LookupStep
<1> USE <1>1, InLookup
<1>3. b.f = MeaningIn(reg, user, b.s, b.at)
  BY DEF Found
<1>4. /\ funcs'[b.s][b.at] = b.f
      /\ \A s \in Sides : \A x \in Types : s # b.s \/ x # b.at => funcs'[s][x] = funcs[s][x]
  BY DEF StoreFunc, IInv, TypeOK
<1>5. /\ b.f = MeaningIn(reg, user, b.s, b.typ)
      /\ \E pc \in {"use", "store"} : GoTo(g, b.typ, pc, b.f)
  BY <1>3, ReturnRight DEF StoreFunc
<1>6. PICK d : /\ task'[g] = d /\ \A h \in Goroutines : h # g => task'[h] = task[h]
               /\ d.op = "get" /\ d.bases = b.bases /\ d.s = b.s /\ d.typ = b.typ
               /\ d.at = b.typ /\ d.pc \in {"use", "store"} /\ d.f = b.f
  <2>1. PICK pc \in {"use", "store"} : GoTo(g, b.typ, pc, b.f)
    BY <1>5
  <2> HIDE DEF b
  <2> QED BY <2>1, GoToFacts DEF b
<1>7. Calls'
  <2>1. CallOK(d, funcs', idTypes', extTypes', reg', user')
    BY <1>5, <1>6 DEF CallOK, Found
  <2>2. ASSUME NEW h \in Goroutines, h # g PROVE CallOK(task[h], funcs', idTypes', extTypes', reg', user')
    <3>1. task[h] \in Tasks /\ CallOK(task[h], funcs, idTypes, extTypes, reg, user)
      BY TaskTypes DEF IInv, Calls
    <3>2. \A i \in AllIds : reg[i] \in Types \cup {None}
      BY RegistryAssumption DEF IInv, TypeOK, Registered, Types
    <3>3. task[h].op \in {"reg", "user", "get"} \/ task[h] = Idle
      BY TaskTypes DEF IInv
    <3>4. task[h].op # "get" => \A s \in Sides : \A x \in Types :
            Base(x) \in task[h].bases => funcs'[s][x] = funcs[s][x]
      BY <1>4, <3>3 DEF Busy, Idle
    <3> QED BY <3>1, <3>2, <3>4, Unaffected
  <2> QED BY <1>6, <2>1, <2>2 DEF Calls
<1>8. Apart'
  BY <1>6 DEF IInv, Apart, Busy
<1>9. Sole'
  BY <1>6 DEF IInv, Sole, HeldIn
<1>10. \A i \in AllIds : Base(b.at) \in HeldIn(reg, i) => b.f = Ext(i)
  <2> SUFFICES ASSUME NEW i \in AllIds, Base(b.at) \in HeldIn(reg, i) PROVE b.f = Ext(i)
    OBVIOUS
  <2>1. \A j \in AllIds : j # i => Base(b.at) \notin HeldIn(reg, j)
    BY DEF IInv, Sole
  <2> QED BY <1>3, <2>1, MeaningHeld
<1>11. Agree'
  <2> SUFFICES ASSUME NEW i \in AllIds, Settled(i)', NEW s \in Sides
               PROVE  /\ idTypes[s][i] = reg[i] /\ extTypes[i] = reg[i]
                      /\ reg[i] # None => funcs'[s][reg[i]] = Ext(i) /\ funcs'[s][Base(reg[i])] = Ext(i)
    BY DEF Agree
  <2>1. Settled(i)
    BY <1>6 DEF Settled
  <2>2. /\ idTypes[s][i] = reg[i] /\ extTypes[i] = reg[i]
        /\ reg[i] # None => funcs[s][reg[i]] = Ext(i) /\ funcs[s][Base(reg[i])] = Ext(i)
    BY <2>1 DEF IInv, Agree
  <2>3. ASSUME reg[i] # None PROVE funcs'[s][reg[i]] = Ext(i) /\ funcs'[s][Base(reg[i])] = Ext(i)
    <3>1. reg[i] \in Types /\ Base(reg[i]) \in Types /\ Base(Base(reg[i])) = Base(reg[i])
      BY <2>3, Family, RegistryAssumption DEF IInv, TypeOK, Registered, Types
    <3>2. \A x \in Types : Base(x) = Base(reg[i]) /\ funcs[s][x] = Ext(i) => funcs'[s][x] = Ext(i)
      BY <1>4, <1>10, <2>3 DEF HeldIn
    <3> QED BY <2>2, <2>3, <3>1, <3>2
  <2> QED BY <2>2, <2>3
<1>12. Cached'
  <2> SUFFICES ASSUME NEW s \in Sides, NEW x \in Types, Still(x)'
               PROVE  /\ funcs'[s][x] \in {Absent, MeaningIn(reg, user, s, x)'}
                      /\ x \in user[s] => funcs'[s][x] = User
    BY DEF Cached
  <2>1. MeaningIn(reg, user, s, x)' = MeaningIn(reg, user, s, x)
    BY DEF MeaningIn, Holders, HeldIn
  <2>2. CASE s = b.s /\ x = b.at
    <3>1. ASSUME x \in user[s] PROVE b.f = User
      <4>1. Base(x) = x
        BY <3>1, Family, RegistryAssumption DEF IInv, TypeOK
      <4>2. \A j \in AllIds : Base(x) \notin HeldIn(reg, j)
        BY <3>1, <4>1 DEF IInv, Sole
      <4> QED BY <1>3, <2>2, <3>1, <4>1, <4>2, MeaningFree
    <3> QED BY <1>3, <1>4, <2>1, <2>2, <3>1
  <2>3. CASE s # b.s \/ x # b.at
    <3>1. Still(x)
      BY <1>6 DEF Still
    <3> QED BY <1>4, <2>1, <2>3, <3>1 DEF IInv, Cached
  <2> QED BY <2>2, <2>3
<1> QED BY <1>2, <1>7, <1>8, <1>9, <1>11, <1>12 DEF IInv

-----------------------------------------------------------------------------
(***************************************************************************)
(* Register                                                                *)
(***************************************************************************)
LEMMA StoreUserKeeps ==
  ASSUME Disciplined, IInv, NEW g \in Goroutines, StoreUser(g)
  PROVE  IInv'
<1> DEFINE b == task[g]
           t == b.t
<1>1. TypeOK /\ TypeOK'
  BY StoreUserType DEF IInv
<1>2. b.op = "user" /\ b \in UserCalls /\ Fresh(b, funcs) /\ UNCHANGED <<idTypes, extTypes, reg>>
  BY <1>1, TaskTypes DEF StoreUser, IInv, Calls, CallOK
<1>3. t \in UserTypes /\ t \in Values /\ t \in Types /\ Base(t) = t /\ b.bases = {t}
  BY <1>2, Family, RegistryAssumption DEF UserCalls, Fresh
<1>4. \A j \in AllIds : t \notin HeldIn(reg, j)
  BY <1>2 DEF IInv, Sole
<1>5. \A h \in Goroutines : h # g => t \notin task[h].bases
  BY <1>2, <1>3 DEF IInv, Apart, Busy
<1>6. CASE Set(g, Idle) /\ UNCHANGED <<funcs, user>>
  <2>1. task'[g] = Idle /\ \A h \in Goroutines : h # g => task'[h] = task[h]
    BY <1>1, <1>6, SetType
  <2>2. Idle.op = "idle" /\ Idle.bases = {}
    BY DEF Idle
  <2>3. CallOK(Idle, funcs, idTypes, extTypes, reg, user)
    BY <2>2 DEF CallOK
  <2> QED BY <1>1, <1>2, <1>6, <2>1, <2>2, <2>3, OnlyTask
<1>7. ASSUME NEW s \in b.sides,
             funcs' = [funcs EXCEPT ![s][t] = User],
             user' = [user EXCEPT ![s] = @ \cup {t}],
             Set(g, [b EXCEPT !.sides = @ \ {s}])
      PROVE  IInv'
  <2> DEFINE d == [b EXCEPT !.sides = @ \ {s}]
  <2>1. task'[g] = d /\ \A h \in Goroutines : h # g => task'[h] = task[h]
    BY <1>1, <1>7, SetType
  <2>2. d.op = "user" /\ d.bases = b.bases /\ d.t = t /\ d.sides = b.sides \ {s}
    BY <1>2 DEF UserCalls
  <2>3. s \in Sides /\ b.sides \subseteq Sides
    BY <1>2, <1>7 DEF UserCalls
  <2>4. /\ funcs'[s][t] = User
        /\ \A s2 \in Sides : \A x \in Types : s2 # s \/ x # t => funcs'[s2][x] = funcs[s2][x]
    BY <1>1, <1>3, <1>7, <2>3 DEF TypeOK
  <2>5. user'[s] = user[s] \cup {t} /\ \A s2 \in Sides : s2 # s => user'[s2] = user[s2]
    BY <1>1, <1>7, <2>3 DEF TypeOK
  <2>6. ASSUME NEW s2 \in Sides, NEW x \in Types, s2 # s \/ Base(x) # t
        PROVE  MeaningIn(reg', user', s2, x) = MeaningIn(reg, user, s2, x)
    <3>1. Base(x) \in user'[s2] <=> Base(x) \in user[s2]
      BY <2>5, <2>6
    <3>2. reg' = reg
      BY <1>2
    <3> QED BY <3>1, <3>2, MeaningFrame
  <2> HIDE DEF d
  <2>7. Calls'
    <3>1. Fresh(d, funcs')
      <4>1. \A s2 \in d.sides : \A x \in Types : Base(x) = t => funcs[s2][x] = Absent
        BY <1>2, <2>2 DEF Fresh
      <4>2. \A s2 \in d.sides : s2 \in Sides /\ s2 # s
        BY <2>2, <2>3
      <4> QED BY <1>3, <2>2, <2>4, <4>1, <4>2 DEF Fresh
    <3>2. ASSUME NEW h \in Goroutines, h # g PROVE CallOK(task[h], funcs', idTypes', extTypes', reg', user')
      <4>1. task[h] \in Tasks /\ CallOK(task[h], funcs, idTypes, extTypes, reg, user)
        BY TaskTypes DEF IInv, Calls
      <4>2. \A i \in AllIds : reg[i] \in Types \cup {None}
        BY RegistryAssumption DEF IInv, TypeOK, Registered, Types
      <4>3. t \notin task[h].bases
        BY <1>5, <3>2
      <4>4. \A s2 \in Sides : \A x \in Types : Base(x) \in task[h].bases => funcs'[s2][x] = funcs[s2][x]
        BY <1>3, <2>4, <4>3
      <4>5. \A s2 \in Sides : \A x \in Types : Base(x) \in task[h].bases =>
              MeaningIn(reg', user', s2, x) = MeaningIn(reg, user, s2, x)
        BY <2>6, <4>3
      <4>6. UNCHANGED <<idTypes, extTypes, reg>>
        BY <1>2
      <4> QED BY <4>1, <4>2, <4>4, <4>5, <4>6, Unaffected
    <3>3. CallOK(d, funcs', idTypes', extTypes', reg', user')
      BY <2>2, <3>1 DEF CallOK
    <3> QED BY <2>1, <3>2, <3>3 DEF Calls
  <2>8. Apart'
    BY <1>2, <2>1, <2>2 DEF IInv, Apart, Busy
  <2>9. Sole'
    <3>1. \A i : HeldIn(reg, i)' = HeldIn(reg, i)
      BY <1>2 DEF HeldIn
    <3>2. \A i \in AllIds, s2 \in Sides : HeldIn(reg, i) \cap user'[s2] = {}
      BY <1>4, <2>5 DEF IInv, Sole
    <3>3. ASSUME NEW h \in Goroutines, task'[h].op = "reg", task'[h].t # None
          PROVE  /\ \A j \in AllIds : j # task'[h].id => Base(task'[h].t) \notin HeldIn(reg, j)
                 /\ \A s2 \in Sides : Base(task'[h].t) \notin user'[s2]
      <4>1. h # g
        BY <2>1, <2>2, <3>3
      <4>2. task'[h] = task[h]
        BY <2>1, <4>1
      <4>3. Base(task[h].t) \in task[h].bases
        BY <3>3, <4>2 DEF IInv, Calls, CallOK, Shape
      <4>4. /\ \A j \in AllIds : j # task[h].id => Base(task[h].t) \notin HeldIn(reg, j)
            /\ \A s2 \in Sides : Base(task[h].t) \notin user[s2]
        BY <3>3, <4>2 DEF IInv, Sole
      <4>5. Base(task[h].t) # t
        BY <1>5, <4>1, <4>3
      <4> QED BY <2>5, <4>2, <4>4, <4>5
    <3>4. ASSUME NEW h \in Goroutines, task'[h].op = "user", NEW j \in AllIds
          PROVE  task'[h].t \notin HeldIn(reg, j)
      <4>1. CASE h = g
        BY <1>4, <2>1, <2>2, <4>1
      <4>2. CASE h # g
        BY <2>1, <3>4, <4>2 DEF IInv, Sole
      <4> QED BY <4>1, <4>2
    <3>5. reg' = reg
      BY <1>2
    <3> QED BY <3>1, <3>2, <3>3, <3>4, <3>5 DEF IInv, Sole
  <2>10. Agree'
    <3> SUFFICES ASSUME NEW i \in AllIds, Settled(i)', NEW s2 \in Sides
                 PROVE  /\ idTypes[s2][i] = reg[i] /\ extTypes[i] = reg[i]
                        /\ reg[i] # None => funcs'[s2][reg[i]] = Ext(i) /\ funcs'[s2][Base(reg[i])] = Ext(i)
      BY <1>2 DEF Agree
    <3>1. Settled(i)
      BY <1>2, <2>1, <2>2 DEF Settled
    <3>2. /\ idTypes[s2][i] = reg[i] /\ extTypes[i] = reg[i]
          /\ reg[i] # None => funcs[s2][reg[i]] = Ext(i) /\ funcs[s2][Base(reg[i])] = Ext(i)
      BY <3>1 DEF IInv, Agree
    <3>3. ASSUME reg[i] # None PROVE funcs'[s2][reg[i]] = Ext(i) /\ funcs'[s2][Base(reg[i])] = Ext(i)
      <4>1. reg[i] \in Types /\ Base(reg[i]) \in Types
        BY <3>3, Family, RegistryAssumption DEF IInv, TypeOK, Registered, Types
      <4>2. Base(reg[i]) # t /\ reg[i] # t
        BY <1>3, <1>4, <3>3 DEF HeldIn
      <4> QED BY <2>4, <3>2, <3>3, <4>1, <4>2
    <3> QED BY <3>2, <3>3
  <2>11. Cached'
    <3> SUFFICES ASSUME NEW s2 \in Sides, NEW x \in Types, Still(x)'
                 PROVE  /\ funcs'[s2][x] \in {Absent, MeaningIn(reg', user', s2, x)}
                        /\ x \in user'[s2] => funcs'[s2][x] = User
      BY DEF Cached
    <3>1. Still(x)
      BY <1>2, <2>1 DEF Still
    <3>2. CASE s2 = s /\ x = t
      <4>1. MeaningIn(reg', user', s, t) = User
        <5>1. reg' = reg
          BY <1>2
        <5> QED BY <1>3, <1>4, <2>5, <5>1, MeaningFree
      <4> QED BY <2>4, <3>2, <4>1
    <3>3. CASE s2 = s /\ Base(x) = t /\ x # t
      <4>1. funcs'[s2][x] = Absent
        BY <1>2, <1>7, <2>4, <3>3 DEF Fresh
      <4>2. x \notin Values
        BY <3>3, Family
      <4>3. x \notin user'[s2]
        BY <1>1, <4>2, RegistryAssumption DEF TypeOK
      <4> QED BY <4>1, <4>3
    <3>4. CASE s2 # s \/ Base(x) # t
      <4>1. s2 # s \/ x # t
        BY <1>3, <3>4
      <4>2. funcs'[s2][x] = funcs[s2][x] /\ (x \in user'[s2] <=> x \in user[s2])
        BY <2>4, <2>5, <4>1
      <4>3. MeaningIn(reg', user', s2, x) = MeaningIn(reg, user, s2, x)
        BY <2>6, <3>4
      <4> QED BY <3>1, <4>2, <4>3 DEF IInv, Cached
    <3> QED BY <3>2, <3>3, <3>4
  <2> QED BY <1>1, <2>7, <2>8, <2>9, <2>10, <2>11 DEF IInv
<1> QED BY <1>6, <1>7 DEF StoreUser

-----------------------------------------------------------------------------
(***************************************************************************)
(* The theorems                                                            *)
(***************************************************************************)
(* The program starts with time.Time registered.                            *)
LEMMA InitHolds ==
  ASSUME Init, TypeOK
  PROVE  IInv
<1>1. TimeId \in AllIds /\ TimeType \in Types /\ Base(TimeType) = TimeType /\ TimeType # None
  BY RegistryAssumption, Family DEF AllIds, Types
<1>2. reg[TimeId] = TimeType /\ \A i \in AllIds : i # TimeId => reg[i] = None
  BY <1>1 DEF Init
<1>3. HeldIn(reg, TimeId) = {TimeType} /\ \A i \in AllIds : i # TimeId => HeldIn(reg, i) = {}
  BY <1>1, <1>2 DEF HeldIn
<1>4. \A g \in Goroutines : task[g].op = "idle" /\ task[g].bases = {}
  BY DEF Init, Idle
<1>5. Calls /\ Apart
  BY <1>4 DEF Calls, CallOK, Apart, Busy
<1>6. Sole
  <2>1. \A s \in Sides : user[s] = {}
    BY DEF Init
  <2>2. \A i \in Ids : i \in AllIds /\ i # TimeId
    BY RegistryAssumption DEF AllIds
  <2> QED BY <1>2, <1>3, <1>4, <2>1, <2>2 DEF Sole
<1>7. Agree
  <2> SUFFICES ASSUME NEW i \in AllIds, NEW s \in Sides
               PROVE  /\ idTypes[s][i] = reg[i] /\ extTypes[i] = reg[i]
                      /\ reg[i] # None => funcs[s][reg[i]] = Ext(i) /\ funcs[s][Base(reg[i])] = Ext(i)
    BY DEF Agree
  <2>1. idTypes[s][i] = reg[i] /\ extTypes[i] = reg[i]
    BY DEF Init
  <2>2. funcs[s][TimeType] = Ext(TimeId)
    BY <1>1 DEF Init
  <2> QED BY <1>1, <1>2, <2>1, <2>2
<1>8. Cached
  <2> SUFFICES ASSUME NEW s \in Sides, NEW x \in Types
               PROVE  /\ funcs[s][x] \in {Absent, MeaningIn(reg, user, s, x)}
                      /\ x \in user[s] => funcs[s][x] = User
    BY DEF Cached
  <2>1. x \notin user[s]
    BY DEF Init
  <2>2. CASE x = TimeType
    <3>1. funcs[s][x] = Ext(TimeId)
      BY <2>2 DEF Init
    <3>2. MeaningIn(reg, user, s, x) = Ext(TimeId)
      BY <1>1, <1>3, <2>2, MeaningHeld
    <3> QED BY <2>1, <3>1, <3>2
  <2>3. CASE x # TimeType
    BY <2>1, <2>3 DEF Init
  <2> QED BY <2>2, <2>3
<1> QED BY <1>5, <1>6, <1>7, <1>8 DEF IInv

(* Nothing happens.                                                         *)
LEMMA Unchanged ==
  ASSUME IInv, UNCHANGED vars
  PROVE  IInv'
<1>1. /\ TypeOK' /\ Calls' /\ Apart'
  BY DEF vars, IInv, TypeOK, Calls, Apart, Busy
<1>2. Sole'
  BY DEF vars, IInv, Sole, HeldIn
<1>3. Agree'
  BY DEF vars, IInv, Agree, Settled
<1>4. Cached'
  BY DEF vars, IInv, Cached, Still, MeaningIn, Holders, HeldIn
<1> QED BY <1>1, <1>2, <1>3, <1>4 DEF IInv

(* The invariant holds for a disciplined program, whatever its types,       *)
(* goroutines, ids and number of calls.                                     *)
THEOREM Invariance ==
  ASSUME Disciplined
  PROVE  Spec => []IInv
<1>1. Init => IInv
  BY InitHolds, InitType
<1>2. IInv /\ [Next]_vars => IInv'
  <2> SUFFICES ASSUME IInv, [Next]_vars PROVE IInv'
    OBVIOUS
  <2>1. ASSUME NEW g \in Goroutines, Call(g) PROVE IInv'
    BY <2>1, CallKeeps
  <2>2. ASSUME NEW g \in Goroutines, RegStep(g) PROVE IInv'
    BY <2>2, RegStepKeeps
  <2>3. ASSUME NEW g \in Goroutines, Step(g) PROVE IInv'
    BY <2>2, <2>3, StoreUserKeeps, LoadTypeKeeps, LoadElemKeeps, StoreFuncKeeps, UseKeeps DEF Step, RegStep
  <2>4. CASE UNCHANGED vars
    BY <2>4, Unchanged
  <2> QED BY <2>1, <2>3, <2>4 DEF Next
<1> QED BY <1>1, <1>2, PTL DEF Spec

(* Encoding and decoding are transparent to the caches: for a disciplined   *)
(* program every lookup by getEncoder or getDecoder gives the function that *)
(* the registrations and the method sets call for, with lookups of the same *)
(* type and registrations of other types running at any point beside it.    *)
THEOREM LookupsTransparent ==
  ASSUME Disciplined
  PROVE  Spec => []Transparent
<1>1. IInv => Transparent
  BY MeaningSame DEF IInv, Calls, CallOK, Found, Transparent, InCall
<1>2. Spec => []IInv
  BY Invariance
<1> QED BY <1>1, <1>2, PTL

(* After RegisterExt and UnregisterExt in any number and any order, also of *)
(* different types at the same time, the three maps agree.                  *)
THEOREM RegistriesAgree ==
  ASSUME Disciplined
  PROVE  Spec => []MapsAgree
<1>1. IInv => MapsAgree
  <2> SUFFICES ASSUME IInv, Quiet PROVE MapsAgree
    BY DEF MapsAgree
  <2>1. \A i : Settled(i)
    BY DEF Quiet, Settled
  <2>2. \A x : Still(x)
    BY DEF Quiet, Still
  <2>3. ASSUME NEW i \in AllIds, NEW s \in Sides
        PROVE  /\ idTypes[s][i] = reg[i] /\ extTypes[i] = reg[i]
               /\ reg[i] # None => \A t \in {reg[i], Base(reg[i])} : funcs[s][t] = Ext(i)
    BY <2>1 DEF IInv, Agree
  <2>4. ASSUME NEW s \in Sides, NEW t \in Types, NEW i \in AllIds, funcs[s][t] = Ext(i)
        PROVE  Base(t) \in Held(i)
    <3>1. MeaningIn(reg, user, s, t) = Ext(i)
      <4>1. Ext(i) # Absent
        BY DEF Ext, Absent
      <4> QED BY <2>2, <2>4, <4>1 DEF IInv, Cached
    <3>2. CASE Holders(reg, Base(t)) = {}
      <4>1. \A j \in AllIds : Base(t) \notin HeldIn(reg, j)
        BY <3>2 DEF Holders
      <4>2. Ext(i) = User \/ Ext(i) = compute(t)
        BY <3>1, <4>1, MeaningFree
      <4> QED BY <4>2 DEF Ext, User, compute, Hook, Kind
    <3>3. CASE Holders(reg, Base(t)) # {}
      <4>1. PICK j \in AllIds : Base(t) \in HeldIn(reg, j)
        BY <3>3 DEF Holders
      <4>2. \A k \in AllIds : k # j => Base(t) \notin HeldIn(reg, k)
        BY <4>1 DEF IInv, Sole
      <4>3. Ext(i) = Ext(j)
        BY <3>1, <4>1, <4>2, MeaningHeld
      <4>4. i = j
        BY <4>3 DEF Ext
      <4> QED BY <4>1, <4>4, HeldSame
    <3> QED BY <3>2, <3>3
  <2> QED BY <2>3, <2>4 DEF MapsAgree
<1>2. Spec => []IInv
  BY Invariance
<1> QED BY <1>1, <1>2, PTL

(* A registration that has returned stays in force, for a disciplined       *)
(* program: the race that overwrites it needs a lookup of the type beside   *)
(* the registration.                                                        *)
THEOREM StaysInForce ==
  ASSUME Disciplined
  PROVE  Spec => []InForce
<1>1. IInv => InForce
  <2> SUFFICES ASSUME IInv, \A g \in Goroutines : task[g] = Idle PROVE InForce
    BY DEF InForce
  <2>1. \A i : Settled(i)
    BY DEF Settled, Idle
  <2> QED BY <2>1 DEF IInv, Agree, InForce
<1>2. Spec => []IInv
  BY Invariance
<1> QED BY <1>1, <1>2, PTL
=============================================================================
