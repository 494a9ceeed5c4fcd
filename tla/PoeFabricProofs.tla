---------------------------- MODULE PoeFabricProofs ---------------------------
(***************************************************************************)
(* Proofs about the fabric: a verdict is one that the caller waited for,   *)
(* the status of a port tells what its cycle does, no call gets hold of a  *)
(* port that serves another device, and the callers share cycles as        *)
(* SharedCycles says.                                                      *)
(***************************************************************************)
EXTENDS PoeCalls, FiniteSetTheorems, WellFoundedInduction, TLAPS

-----------------------------------------------------------------------------
(* Resolution *)

(* Of several ports that report an id, one is the last in the list.        *)
LEMMA LastPort ==
  ASSUME NEW S \in SUBSET Ports, S # {}
  PROVE  Max(S) \in S
<1> DEFINE n == Cardinality(Ports)
           T == {n - x : x \in S}
           Less == {pair \in Nat \X Nat : pair[1] < pair[2]}
<1>1. n \in Nat /\ Ports = 1 .. n
  BY FS_CardinalityType, PoeFabricAssumption
<1>2. T \in SUBSET Nat /\ T # {}
  BY <1>1
<1>3. PICK m \in T : \A k \in T : m <= k
  <2>1. IsWellFoundedOn(Less, Nat)
    BY NatLessThanWellFounded DEF OpToRel
  <2>2. PICK m \in T : \A k \in T : <<k, m>> \notin Less
    BY <1>2, <2>1, WFMin
  <2>3. ASSUME NEW k \in T PROVE m <= k
    <3>1. m \in Nat /\ k \in Nat /\ <<k, m>> \in Nat \X Nat
      BY <1>2, <2>3
    <3>2. ~ (<<k, m>>[1] < <<k, m>>[2])
      BY <2>2, <2>3, <3>1
    <3>. QED  BY <3>1, <3>2
  <2>. QED  BY <2>3
<1>4. PICK x \in S : m = n - x
  BY <1>3
<1>5. \A y \in S : x >= y
  <2> TAKE y \in S
  <2>1. n - y \in T
    OBVIOUS
  <2>. QED  BY <1>1, <1>3, <1>4, <2>1
<1>. QED  BY <1>5 DEF Max

(* A port that alone reports an id is the one found. *)
LEMMA OnlyReporting ==
  ASSUME NEW d \in Devices, Cardinality(Reporting(d)) = 1
  PROVE  /\ Max(Reporting(d)) \in Ports
         /\ Reporting(d) = {Max(Reporting(d))}
<1>1. Reporting(d) \in SUBSET Ports /\ IsFiniteSet(Reporting(d))
  BY FS_Subset, PoeFabricAssumption DEF Reporting
<1>2. PICK p : Reporting(d) = {p}
  BY <1>1, FS_Singleton
<1>3. Max(Reporting(d)) \in Reporting(d)
  BY <1>1, <1>2, LastPort
<1>. QED  BY <1>1, <1>2, <1>3

(* The cache that relearning leaves. *)
LEMMA RelearnedCache ==
  ASSUME NEW known \in [Devices -> Ports \cup {None}], NEW read
  PROVE  Relearn(known, read) \in [Devices -> Ports \cup {None}]
<1>1. ASSUME NEW d \in Devices
      PROVE  LET at == {p \in Ports : read[p] = d}
             IN  (IF at = {} THEN known[d] ELSE Max(at)) \in Ports \cup {None}
  <2> DEFINE at == {p \in Ports : read[p] = d}
  <2>1. CASE at = {}
    BY <2>1
  <2>2. CASE at # {}
    BY <2>2, LastPort
  <2>. QED  BY <2>1, <2>2
<1>. QED  BY <1>1 DEF Relearn

(* What a resolution finds: a port that no other device is seen on, and the*)
(* only one the device is seen on, if any.                                 *)
LEMMA Resolution ==
  ASSUME TypeOK, NEW d \in Devices
  PROVE  /\ Resolve(d) \in Ports \cup {None}
         /\ Learned(d) \in [Devices -> Ports \cup {None}]
         /\ Resolve(d) # None =>
              /\ reports[Resolve(d)] \in {d, None}
              /\ \A q \in Ports \ {Resolve(d)} : reports[q] # d
<1>1. CASE Cardinality(Reporting(d)) = 1
  <2>1. Resolve(d) = Max(Reporting(d))
    BY <1>1 DEF Resolve
  <2>2. Learned(d) = [cache EXCEPT ![d] = Max(Reporting(d))]
    <3>1. Reporting(d) # {}
      BY <1>1, FS_EmptySet
    <3>. QED  BY <1>1, <3>1 DEF Learned
  <2>3. Resolve(d) \in Ports /\ Reporting(d) = {Resolve(d)}
    BY <1>1, <2>1, OnlyReporting
  <2>. QED  BY <2>1, <2>2, <2>3 DEF Reporting, TypeOK
<1>2. CASE Cardinality(Reporting(d)) # 1
  <2>1. Learned(d) \in {[cache EXCEPT ![d] = None], cache}
    BY <1>2 DEF Learned
  <2>2. Resolve(d) # None =>
          Reporting(d) = {} /\ Resolve(d) = cache[d] /\ reports[cache[d]] = None
    BY <1>2 DEF Resolve
  <2>. QED  BY <2>1, <2>2 DEF Reporting, TypeOK
<1>. QED  BY <1>1, <1>2

-----------------------------------------------------------------------------
(* Calls and their cycles *)

(* A caller awaits a cycle of its own exactly from its creation to its own *)
(* return, and a port registers a cycle of that port only.                 *)
Wired ==
  /\ \A c \in Callers :
       /\ call[c].on = c <=> cycle[c].point # "none"
       /\ call[c].on = c => call[c].result = "none"
       /\ cycle[c].point # "none" => cycle[c].port \in Ports
       /\ cycle[c].point # "done" => cycle[c].result = "none"
  /\ \A p \in Ports : inflight[p] # None =>
       cycle[inflight[p]].point # "none" /\ cycle[inflight[p]].port = p

LEMMA WiredAtInit == Init => TypeOK /\ Wired
<1> SUFFICES ASSUME Init PROVE TypeOK /\ Wired
  OBVIOUS
<1>1. cache \in [Devices -> Ports \cup {None}]
  BY RelearnedCache DEF Init
<1>2. NoCall("none") \in CallRecord /\ NoCycle \in CycleRecord
  BY DEF NoCall, NoCycle, CallRecord, CycleRecord, Live, Running, Verdicts
<1>3. TypeOK
  BY <1>1, <1>2 DEF Init, TypeOK, Status
<1>. QED
  BY <1>3, PoeFabricAssumption DEF Init, Wired, NoCall, NoCycle

(* The steps of a cycle's task keep the types and the wiring.              *)
LEMMA GoToKeeps ==
  ASSUME TypeOK, Wired, NEW c \in Callers, NEW from \in Live, At(c, from),
         NEW point \in Live, GoTo(c, point)
  PROVE  /\ cycle' \in [Callers -> CycleRecord]
         /\ cycle'[c] = [cycle[c] EXCEPT !.point = point]
         /\ \A e \in Callers \ {c} : cycle'[e] = cycle[e]
         /\ cycle[c].port \in Ports
<1>1. cycle[c] \in CycleRecord
  BY DEF TypeOK
<1>2. [cycle[c] EXCEPT !.point = point] \in CycleRecord
  BY <1>1 DEF CycleRecord
<1>3. cycle[c].point # "none"
  BY DEF At, Live, Running
<1>. QED  BY <1>2, <1>3 DEF GoTo, TypeOK, Wired

LEMMA DoneKeeps ==
  ASSUME TypeOK, Wired, NEW c \in Callers, cycle[c].point \in Live,
         NEW result \in Verdicts, Done(c, result)
  PROVE  /\ cycle' \in [Callers -> CycleRecord]
         /\ cycle'[c] = [cycle[c] EXCEPT !.point = "done", !.result = result]
         /\ \A e \in Callers \ {c} : cycle'[e] = cycle[e]
         /\ cycle[c].port \in Ports
<1>1. cycle[c] \in CycleRecord
  BY DEF TypeOK
<1>2. [cycle[c] EXCEPT !.point = "done", !.result = result] \in CycleRecord
  BY <1>1 DEF CycleRecord
<1>3. cycle[c].point # "none"
  BY DEF Live, Running
<1>. QED  BY <1>2, <1>3 DEF Done, TypeOK, Wired

(* The record of a call through its steps. *)
LEMMA CallUpdates ==
  ASSUME NEW r \in CallRecord, NEW result \in Verdicts \cup {"none"}
  PROVE  /\ [r EXCEPT !.confirmed = TRUE] \in CallRecord
         /\ [r EXCEPT !.result = result] \in CallRecord
         /\ [r EXCEPT !.on = None, !.device = None] \in CallRecord
         /\ [r EXCEPT !.on = None, !.device = None, !.result = result]
              \in CallRecord
         /\ [r EXCEPT !.cancelled = TRUE] \in CallRecord
         /\ [r EXCEPT !.cancelled = TRUE, !.result = result] \in CallRecord
BY DEF CallRecord

(* Every step keeps the types, given the wiring. *)
LEMMA TypesKept == TypeOK /\ Wired /\ [Next]_vars => TypeOK'
<1> SUFFICES ASSUME TypeOK, Wired, [Next]_vars PROVE TypeOK'
  OBVIOUS
<1>1. ASSUME NEW p \in Ports, ReportChanges(p)
      PROVE  TypeOK'
  BY <1>1, RelearnedCache DEF ReportChanges, TypeOK
<1>2. ASSUME NEW c \in Callers, NEW d \in Devices,
             RepairRefused(c, d) \/ RepairJoins(c, d)
      PROVE  TypeOK'
  <2>1. /\ cache' \in [Devices -> Ports \cup {None}]
        /\ Resolve(d) \in Ports \cup {None}
    BY <1>2, Resolution DEF RepairRefused, RepairJoins
  <2>2. NoCall("false") \in CallRecord
    BY DEF NoCall, CallRecord, Verdicts
  <2>3. \A e \in Callers : NewCall(e, d) \in CallRecord
    BY DEF NewCall, CallRecord
  <2>4. Resolve(d) # None => inflight[Resolve(d)] \in Callers \cup {None}
    BY <2>1 DEF TypeOK
  <2>5. call' \in [Callers -> CallRecord]
    BY <1>2, <2>2, <2>3, <2>4 DEF RepairRefused, RepairJoins, Joinable, TypeOK
  <2>. QED  BY <1>2, <2>1, <2>5 DEF RepairRefused, RepairJoins, TypeOK
<1>3. ASSUME NEW c \in Callers, NEW d \in Devices, RepairCreates(c, d)
      PROVE  TypeOK'
  <2>1. cache' \in [Devices -> Ports \cup {None}] /\ Resolve(d) \in Ports
    BY <1>3, Resolution DEF RepairCreates
  <2>2. NewCall(c, d) \in CallRecord
    BY DEF NewCall, CallRecord
  <2>3. [NoCycle EXCEPT !.point = "created", !.port = Resolve(d)] \in CycleRecord
    BY <2>1 DEF NoCycle, CycleRecord, Live
  <2>. QED  BY <1>3, <2>1, <2>2, <2>3 DEF RepairCreates, TypeOK
<1>4. ASSUME NEW c \in Callers,
             TurnOffDone(c) \/ AwaitOffEnds(c) \/ SleepEnds(c) \/ TurnOnDone(c)
      PROVE  TypeOK'
  <2>1. cycle' \in [Callers -> CycleRecord]
    BY <1>4, GoToKeeps
      DEF TurnOffDone, AwaitOffEnds, SleepEnds, TurnOnDone, Live, Running
  <2>. QED
    BY <1>4, <2>1
      DEF TurnOffDone, AwaitOffEnds, SleepEnds, TurnOnDone, TypeOK
<1>5. ASSUME NEW c \in Callers, CycleStarts(c)
      PROVE  TypeOK'
  <2>1. cycle' \in [Callers -> CycleRecord] /\ cycle[c].port \in Ports
    BY <1>5, GoToKeeps DEF CycleStarts, Live, Running
  <2>. QED  BY <1>5, <2>1 DEF CycleStarts, Status, TypeOK
<1>6. ASSUME NEW c \in Callers,
             ServiceRaises(c) \/ OnlineConfirmed(c) \/ OnlineTimesOut(c)
      PROVE  TypeOK'
  <2>1. PICK result \in {"raised", "true", "false"} : Settles(c, result)
    BY <1>6 DEF ServiceRaises, OnlineConfirmed, OnlineTimesOut
  <2>2. cycle' \in [Callers -> CycleRecord]
    BY <1>6, <2>1, DoneKeeps
      DEF ServiceRaises, OnlineConfirmed, OnlineTimesOut, Settles, At, Live,
          Running, Verdicts
  <2>3. call' \in [Callers -> CallRecord]
    BY <1>6, CallUpdates
      DEF ServiceRaises, OnlineConfirmed, OnlineTimesOut, TypeOK
  <2>. QED
    BY <2>1, <2>2, <2>3 DEF Settles, StatusAfter, Status, TypeOK
<1>7. ASSUME NEW c \in Callers, CycleCancelled(c)
      PROVE  TypeOK'
  <2>1. cycle' \in [Callers -> CycleRecord] /\ cycle[c].port \in Ports
    BY <1>7, DoneKeeps DEF CycleCancelled, Verdicts
  <2>2. power' \in [Ports -> BOOLEAN]
    BY <1>7, <2>1 DEF CycleCancelled, TypeOK
  <2>. QED  BY <1>7, <2>1, <2>2 DEF CycleCancelled, TypeOK
<1>8. ASSUME NEW c \in Callers, CreatorReturns(c)
      PROVE  TypeOK'
  <2>1. NoCycle \in CycleRecord
    BY DEF NoCycle, CycleRecord
  <2>2. cycle[c].result \in Verdicts \cup {"none"}
    BY DEF TypeOK, CycleRecord
  <2>3. (IF cycle[c].cancel THEN "cancelled" ELSE cycle[c].result)
          \in Verdicts \cup {"none"}
    BY <2>2 DEF Verdicts
  <2>4. ASSUME NEW x \in Callers
        PROVE  call'[x] \in CallRecord
    <3>1. call[x] \in CallRecord /\ call[c] \in CallRecord
      BY DEF TypeOK
    <3>2. CASE x = c
      BY <1>8, <2>3, <3>1, <3>2, CallUpdates DEF CreatorReturns
    <3>3. CASE x # c /\ call[x].on = c /\ call[x].result = "none"
      BY <1>8, <2>2, <3>1, <3>3, CallUpdates DEF CreatorReturns
    <3>4. CASE x # c /\ ~ (call[x].on = c /\ call[x].result = "none")
      BY <1>8, <3>1, <3>4 DEF CreatorReturns
    <3>. QED  BY <3>2, <3>3, <3>4
  <2>5. call' \in [Callers -> CallRecord]
    BY <1>8, <2>4 DEF CreatorReturns
  <2>. QED  BY <1>8, <2>1, <2>5 DEF CreatorReturns, TypeOK
<1>9. ASSUME NEW c \in Callers, JoinerReturns(c) \/ Cancel(c)
      PROVE  TypeOK'
  <2>1. call' \in [Callers -> CallRecord]
    <3>1. call[c] \in CallRecord /\ "cancelled" \in Verdicts
      BY DEF TypeOK, Verdicts
    <3>2. PICK r \in {[call[c] EXCEPT !.on = None, !.device = None],
                      [call[c] EXCEPT !.cancelled = TRUE],
                      [call[c] EXCEPT !.cancelled = TRUE,
                                      !.result = "cancelled"]} :
            call' = [call EXCEPT ![c] = r]
      BY <1>9 DEF JoinerReturns, Cancel, TypeOK
    <3>3. /\ [call[c] EXCEPT !.on = None, !.device = None] \in CallRecord
          /\ [call[c] EXCEPT !.cancelled = TRUE] \in CallRecord
          /\ [call[c] EXCEPT !.cancelled = TRUE, !.result = "cancelled"]
               \in CallRecord
      BY <3>1, CallUpdates
    <3>4. r \in CallRecord
      BY <3>2, <3>3
    <3>. QED  BY <3>2, <3>4 DEF TypeOK
  <2>2. cycle' \in [Callers -> CycleRecord]
    <3>1. cycle[c] \in CycleRecord
      BY DEF TypeOK
    <3>2. [cycle[c] EXCEPT !.cancel = TRUE] \in CycleRecord
      BY <3>1 DEF CycleRecord
    <3>. QED  BY <1>9, <3>2 DEF JoinerReturns, Cancel, TypeOK
  <2>. QED  BY <1>9, <2>1, <2>2 DEF JoinerReturns, Cancel, TypeOK
<1>10. CASE UNCHANGED vars
  BY <1>10 DEF vars, TypeOK
<1>. QED
  BY <1>1, <1>2, <1>3, <1>4, <1>5, <1>6, <1>7, <1>8, <1>9, <1>10
    DEF Next, Calls, CycleTask, Resumes

(* A step of a cycle's task keeps the wiring. *)
LEMMA TaskKeepsWired ==
  ASSUME Wired, NEW c \in Callers, cycle[c].point # "none",
         cycle'[c].point # "none", cycle'[c].port = cycle[c].port,
         cycle'[c].point # "done" => cycle'[c].result = "none",
         \A e \in Callers \ {c} : cycle'[e] = cycle[e],
         \A x \in Callers : /\ call'[x].on = call[x].on
                            /\ call'[x].result = call[x].result,
         inflight' = inflight, TypeOK
  PROVE  Wired'
<1>1. \A x \in Callers :
        /\ cycle'[x].point = "none" <=> cycle[x].point = "none"
        /\ cycle'[x].port = cycle[x].port
        /\ cycle'[x].point # "done" => cycle'[x].result = "none"
  BY DEF Wired
<1>2. \A p \in Ports : inflight[p] # None => inflight[p] \in Callers
  BY DEF TypeOK
<1>. QED  BY <1>1, <1>2 DEF Wired

LEMMA WiredKept == TypeOK /\ Wired /\ [Next]_vars => Wired'
<1> SUFFICES ASSUME TypeOK, Wired, [Next]_vars PROVE Wired'
  OBVIOUS
<1>0. None \notin Callers
  BY PoeFabricAssumption
<1>1. ASSUME NEW p \in Ports, ReportChanges(p)
      PROVE  Wired'
  BY <1>1 DEF ReportChanges, Wired
<1>2. ASSUME NEW c \in Callers, NEW d \in Devices, RepairRefused(c, d)
      PROVE  Wired'
  BY <1>0, <1>2 DEF RepairRefused, Idle, NoCall, Wired, TypeOK
<1>3. ASSUME NEW c \in Callers, NEW d \in Devices, RepairJoins(c, d)
      PROVE  Wired'
  <2>1. Resolve(d) \in Ports
    BY <1>3, Resolution DEF RepairJoins
  <2>2. call[c].on # c /\ cycle[c].point = "none"
    BY <1>0, <1>3 DEF RepairJoins, Idle, Wired
  <2>3. inflight[Resolve(d)] # c
    BY <1>0, <2>1, <2>2 DEF Wired
  <2>4. call'[c].on # c /\ \A x \in Callers \ {c} : call'[x] = call[x]
    BY <1>3, <2>3 DEF RepairJoins, NewCall, TypeOK
  <2>. QED  BY <1>3, <2>2, <2>4 DEF RepairJoins, Wired
<1>4. ASSUME NEW c \in Callers, NEW d \in Devices, RepairCreates(c, d)
      PROVE  Wired'
  <2>1. Resolve(d) \in Ports
    BY <1>4, Resolution DEF RepairCreates
  <2>2. call[c].on # c /\ cycle[c].point = "none"
    BY <1>0, <1>4 DEF RepairCreates, Idle, Wired
  <2>3. /\ cycle'[c].point = "created" /\ cycle'[c].port = Resolve(d)
        /\ cycle'[c].result = "none"
        /\ \A x \in Callers \ {c} : cycle'[x] = cycle[x]
    BY <1>4 DEF RepairCreates, NoCycle, TypeOK
  <2>4. /\ call'[c].on = c /\ call'[c].result = "none"
        /\ \A x \in Callers \ {c} : call'[x] = call[x]
    BY <1>4 DEF RepairCreates, NewCall, TypeOK
  <2>5. /\ inflight'[Resolve(d)] = c
        /\ \A p \in Ports \ {Resolve(d)} : inflight'[p] = inflight[p]
    BY <1>4, <2>1 DEF RepairCreates, TypeOK
  <2>6. \A p \in Ports \ {Resolve(d)} : inflight'[p] # None =>
          inflight'[p] \in Callers \ {c}
    BY <2>2, <2>5 DEF Wired, TypeOK
  <2>7. \A p \in Ports : inflight'[p] # None =>
          cycle'[inflight'[p]].point # "none" /\ cycle'[inflight'[p]].port = p
    BY <2>3, <2>5, <2>6 DEF Wired
  <2>. QED  BY <2>1, <2>2, <2>3, <2>4, <2>7 DEF Wired
<1>5. ASSUME NEW c \in Callers,
             \/ CycleStarts(c) \/ TurnOffDone(c) \/ AwaitOffEnds(c)
             \/ SleepEnds(c) \/ TurnOnDone(c)
      PROVE  Wired'
  <2>1. PICK from \in Live, point \in Live : At(c, from) /\ GoTo(c, point)
    BY <1>5 DEF CycleStarts, TurnOffDone, AwaitOffEnds, SleepEnds, TurnOnDone,
                Live, Running
  <2>2. /\ cycle[c].point # "none" /\ cycle[c].point # "done"
        /\ point # "none" /\ point # "done"
    BY <2>1 DEF At, Live, Running
  <2>3. /\ cycle'[c] = [cycle[c] EXCEPT !.point = point]
        /\ \A e \in Callers \ {c} : cycle'[e] = cycle[e]
    BY <2>1, GoToKeeps
  <2>4. /\ cycle'[c].point = point /\ cycle'[c].port = cycle[c].port
        /\ cycle'[c].result = cycle[c].result
    BY <2>3 DEF TypeOK, CycleRecord
  <2>5. UNCHANGED <<call, inflight>>
    BY <1>5 DEF CycleStarts, TurnOffDone, AwaitOffEnds, SleepEnds, TurnOnDone
  <2>6. cycle[c].result = "none"
    BY <2>2 DEF Wired
  <2>. QED  BY <2>2, <2>3, <2>4, <2>5, <2>6, TaskKeepsWired
<1>6. ASSUME NEW c \in Callers,
             \/ ServiceRaises(c) \/ OnlineConfirmed(c) \/ OnlineTimesOut(c)
             \/ CycleCancelled(c)
      PROVE  Wired'
  <2>1. cycle[c].point \in Live
    BY <1>6 DEF ServiceRaises, OnlineConfirmed, OnlineTimesOut, CycleCancelled,
                At, Live, Running
  <2>2. PICK result \in Verdicts : Done(c, result)
    BY <1>6 DEF ServiceRaises, OnlineConfirmed, OnlineTimesOut, CycleCancelled,
                Settles, Verdicts
  <2>3. /\ cycle'[c] = [cycle[c] EXCEPT !.point = "done", !.result = result]
        /\ \A e \in Callers \ {c} : cycle'[e] = cycle[e]
    BY <2>1, <2>2, DoneKeeps
  <2>4. cycle'[c].point = "done" /\ cycle'[c].port = cycle[c].port
    BY <2>3 DEF TypeOK, CycleRecord
  <2>5. \A x \in Callers : /\ call'[x].on = call[x].on
                           /\ call'[x].result = call[x].result
    <3> TAKE x \in Callers
    <3>1. call'[x] \in {call[x], [call[x] EXCEPT !.confirmed = TRUE]}
      BY <1>6 DEF ServiceRaises, OnlineConfirmed, OnlineTimesOut,
                  CycleCancelled
    <3>2. call[x] \in CallRecord
      BY DEF TypeOK
    <3>. QED  BY <3>1, <3>2 DEF CallRecord
  <2>6. inflight' = inflight
    BY <1>6 DEF ServiceRaises, OnlineConfirmed, OnlineTimesOut, CycleCancelled,
                Settles
  <2>7. cycle[c].point # "none"
    BY <2>1 DEF Live, Running
  <2>. QED  BY <2>3, <2>4, <2>5, <2>6, <2>7, TaskKeepsWired
<1>7. ASSUME NEW c \in Callers, CreatorReturns(c)
      PROVE  Wired'
  <2>1. cycle[c].port \in Ports /\ call[c].on = c
    BY <1>7 DEF CreatorReturns, Wired
  <2>2. /\ cycle'[c].point = "none" /\ cycle'[c].result = "none"
        /\ \A x \in Callers \ {c} : cycle'[x] = cycle[x]
    BY <1>7 DEF CreatorReturns, NoCycle, TypeOK
  <2>3. call'[c].on = None
    BY <1>7 DEF CreatorReturns, TypeOK, CallRecord
  <2>4. ASSUME NEW x \in Callers \ {c}
        PROVE  /\ call'[x].on = call[x].on
               /\ call'[x].on = x => call'[x].result = call[x].result
    BY <1>7 DEF CreatorReturns, TypeOK, CallRecord
  <2>5. ASSUME NEW p \in Ports, inflight'[p] # None
        PROVE  inflight'[p] = inflight[p] /\ inflight[p] \in Callers \ {c}
    <3>1. p # cycle[c].port /\ inflight'[p] = inflight[p]
      BY <1>7, <2>1, <2>5 DEF CreatorReturns, TypeOK
    <3>. QED  BY <2>5, <3>1 DEF Wired, TypeOK
  <2>6. ASSUME NEW x \in Callers
        PROVE  /\ call'[x].on = x <=> cycle'[x].point # "none"
               /\ call'[x].on = x => call'[x].result = "none"
               /\ cycle'[x].point # "none" => cycle'[x].port \in Ports
               /\ cycle'[x].point # "done" => cycle'[x].result = "none"
    <3>1. CASE x = c
      BY <1>0, <2>2, <2>3, <3>1
    <3>2. CASE x # c
      BY <2>2, <2>4, <3>2 DEF Wired
    <3>. QED  BY <3>1, <3>2
  <2>7. \A p \in Ports : inflight'[p] # None =>
          cycle'[inflight'[p]].point # "none" /\ cycle'[inflight'[p]].port = p
    BY <2>2, <2>5 DEF Wired
  <2>. QED  BY <2>6, <2>7 DEF Wired
<1>8. ASSUME NEW c \in Callers, JoinerReturns(c)
      PROVE  Wired'
  <2>1. /\ call[c].on # c /\ call'[c].on = None
        /\ \A x \in Callers \ {c} : call'[x] = call[x]
    BY <1>8 DEF JoinerReturns, TypeOK, CallRecord
  <2>2. cycle' = cycle /\ inflight' = inflight
    BY <1>8 DEF JoinerReturns
  <2>3. \A x \in Callers : /\ call'[x].on = x <=> call[x].on = x
                           /\ call'[x].on = x => call'[x] = call[x]
    BY <1>0, <2>1
  <2>. QED  BY <2>2, <2>3 DEF Wired
<1>9. ASSUME NEW c \in Callers, Cancel(c)
      PROVE  Wired'
  <2>1. /\ call'[c].on = call[c].on
        /\ call[c].on = c => call'[c].result = call[c].result
        /\ \A x \in Callers \ {c} : call'[x] = call[x]
    BY <1>9 DEF Cancel, TypeOK, CallRecord
  <2>2. \A x \in Callers : /\ cycle'[x].point = cycle[x].point
                           /\ cycle'[x].port = cycle[x].port
                           /\ cycle'[x].result = cycle[x].result
    BY <1>9 DEF Cancel, TypeOK, CycleRecord
  <2>3. inflight' = inflight /\ inflight \in [Ports -> Callers \cup {None}]
    BY <1>9 DEF Cancel, TypeOK
  <2>. QED  BY <2>1, <2>2, <2>3 DEF Wired
<1>10. CASE UNCHANGED vars
  BY <1>10 DEF vars, Wired
<1>. QED
  BY <1>1, <1>2, <1>3, <1>4, <1>5, <1>6, <1>7, <1>8, <1>9, <1>10
    DEF Next, Calls, CycleTask, Resumes

(* Every variable of the fabric keeps its type; in particular a resolution *)
(* finds a configured port or refuses, and every cycle knows its port.     *)
THEOREM TypeCorrect == Spec => []TypeOK
<1>1. TypeOK /\ Wired /\ [Next]_vars => TypeOK' /\ Wired'
  BY TypesKept, WiredKept
<1>. QED  BY <1>1, WiredAtInit, PTL DEF Spec

-----------------------------------------------------------------------------
(* Fresh verdicts *)

(* Who waits for a cycle that came online was there when it did.           *)
Witnessed ==
  \A c, x \in Callers :
    call[x].on = c /\ call[x].result = "none" /\ cycle[c].result = "true"
      => call[x].confirmed

LEMMA WitnessedKept ==
  TypeOK /\ Wired /\ VerdictIsFresh /\ Witnessed /\ [Next]_vars
    => VerdictIsFresh' /\ Witnessed'
<1> SUFFICES ASSUME TypeOK, Wired, VerdictIsFresh, Witnessed, [Next]_vars
             PROVE  VerdictIsFresh' /\ Witnessed'
  OBVIOUS
<1>0. None \notin Callers
  BY PoeFabricAssumption
<1>1. ASSUME NEW p \in Ports, ReportChanges(p)
      PROVE  VerdictIsFresh' /\ Witnessed'
  BY <1>1 DEF ReportChanges, VerdictIsFresh, Witnessed
<1>2. ASSUME NEW c \in Callers, NEW d \in Devices, RepairRefused(c, d)
      PROVE  VerdictIsFresh' /\ Witnessed'
  <2>1. /\ call'[c].on = None /\ call'[c].result = "false"
        /\ \A x \in Callers \ {c} : call'[x] = call[x]
        /\ cycle' = cycle
    BY <1>2 DEF RepairRefused, NoCall, TypeOK
  <2>. QED  BY <1>0, <2>1 DEF VerdictIsFresh, Witnessed
<1>3. ASSUME NEW c \in Callers, NEW d \in Devices, RepairJoins(c, d)
      PROVE  VerdictIsFresh' /\ Witnessed'
  <2>1. Resolve(d) \in Ports
    BY <1>3, Resolution DEF RepairJoins
  <2>2. cycle[inflight[Resolve(d)]].result = "none"
    BY <1>3, <2>1 DEF RepairJoins, Joinable, Live, Running, Wired, TypeOK
  <2>3. /\ call'[c].on = inflight[Resolve(d)] /\ call'[c].result = "none"
        /\ \A x \in Callers \ {c} : call'[x] = call[x]
        /\ cycle' = cycle
    BY <1>3 DEF RepairJoins, NewCall, TypeOK
  <2>. QED  BY <2>2, <2>3 DEF VerdictIsFresh, Witnessed
<1>4. ASSUME NEW c \in Callers, NEW d \in Devices, RepairCreates(c, d)
      PROVE  VerdictIsFresh' /\ Witnessed'
  <2>1. /\ call'[c].on = c /\ call'[c].result = "none"
        /\ \A x \in Callers \ {c} : call'[x] = call[x]
    BY <1>4 DEF RepairCreates, NewCall, TypeOK
  <2>2. /\ cycle'[c].result = "none"
        /\ \A x \in Callers \ {c} : cycle'[x] = cycle[x]
    BY <1>4 DEF RepairCreates, NoCycle, TypeOK
  <2>. QED  BY <2>1, <2>2 DEF VerdictIsFresh, Witnessed
<1>5. ASSUME NEW c \in Callers,
             \/ CycleStarts(c) \/ TurnOffDone(c) \/ AwaitOffEnds(c)
             \/ SleepEnds(c) \/ TurnOnDone(c)
      PROVE  VerdictIsFresh' /\ Witnessed'
  <2>1. call' = call
    BY <1>5 DEF CycleStarts, TurnOffDone, AwaitOffEnds, SleepEnds, TurnOnDone
  <2>2. \A x \in Callers : cycle'[x].result = cycle[x].result
    BY <1>5 DEF CycleStarts, TurnOffDone, AwaitOffEnds, SleepEnds, TurnOnDone,
                GoTo, TypeOK, CycleRecord
  <2>. QED  BY <2>1, <2>2 DEF VerdictIsFresh, Witnessed
<1>6. ASSUME NEW c \in Callers,
             ServiceRaises(c) \/ OnlineTimesOut(c) \/ CycleCancelled(c)
      PROVE  VerdictIsFresh' /\ Witnessed'
  <2>1. call' = call
    BY <1>6 DEF ServiceRaises, OnlineTimesOut, CycleCancelled
  <2>2. PICK result \in {"raised", "false", "cancelled"} : Done(c, result)
    BY <1>6 DEF ServiceRaises, OnlineTimesOut, CycleCancelled, Settles
  <2>3. /\ cycle'[c].result # "true"
        /\ \A x \in Callers \ {c} : cycle'[x] = cycle[x]
    BY <2>2 DEF Done, TypeOK, CycleRecord
  <2>. QED  BY <2>1, <2>3 DEF VerdictIsFresh, Witnessed
<1>7. ASSUME NEW c \in Callers, OnlineConfirmed(c)
      PROVE  VerdictIsFresh' /\ Witnessed'
  <2>1. \A x \in Callers \ {c} : cycle'[x] = cycle[x]
    BY <1>7 DEF OnlineConfirmed, Settles, Done, TypeOK
  <2>2. ASSUME NEW x \in Callers
        PROVE  /\ call'[x].on = call[x].on /\ call'[x].result = call[x].result
               /\ call[x].confirmed => call'[x].confirmed
               /\ call[x].on = c /\ call[x].result = "none"
                    => call'[x].confirmed
    <3>1. call[x] \in CallRecord
      BY DEF TypeOK
    <3>2. CASE call[x].on = c /\ call[x].result = "none"
      <4>1. call'[x] = [call[x] EXCEPT !.confirmed = TRUE]
        BY <1>7, <3>2 DEF OnlineConfirmed
      <4>. QED  BY <3>1, <4>1 DEF CallRecord
    <3>3. CASE ~ (call[x].on = c /\ call[x].result = "none")
      <4>1. call'[x] = call[x]
        BY <1>7, <3>3 DEF OnlineConfirmed
      <4>. QED  BY <3>3, <4>1
    <3>. QED  BY <3>2, <3>3
  <2>. QED  BY <2>1, <2>2 DEF VerdictIsFresh, Witnessed
<1>8. ASSUME NEW c \in Callers, CreatorReturns(c)
      PROVE  VerdictIsFresh' /\ Witnessed'
  <2>1. call[c].on = c /\ call[c].result = "none"
    BY <1>8 DEF CreatorReturns, Wired
  <2>2. /\ cycle'[c].result = "none"
        /\ \A x \in Callers \ {c} : cycle'[x] = cycle[x]
    BY <1>8 DEF CreatorReturns, NoCycle, TypeOK
  <2>3. ASSUME NEW x \in Callers
        PROVE  /\ call'[x].result = "true" => call'[x].confirmed
               /\ call'[x].on # c /\ call'[x].on # None => call'[x] = call[x]
    <3>1. call[x] \in CallRecord
      BY DEF TypeOK
    <3>2. CASE x = c
      <4>1. /\ call'[x].on = None /\ call'[x].confirmed = call[x].confirmed
            /\ call'[x].result \in {"cancelled", cycle[c].result}
        BY <1>8, <3>1, <3>2 DEF CreatorReturns, CallRecord
      <4>. QED  BY <2>1, <3>2, <4>1 DEF Witnessed
    <3>3. CASE x # c /\ call[x].on = c /\ call[x].result = "none"
      <4>1. call'[x] = [call[x] EXCEPT !.result = cycle[c].result]
        BY <1>8, <3>3 DEF CreatorReturns
      <4>2. /\ call'[x].on = c /\ call'[x].confirmed = call[x].confirmed
            /\ call'[x].result = cycle[c].result
        BY <3>1, <3>3, <4>1 DEF CallRecord
      <4>. QED  BY <3>3, <4>2 DEF Witnessed
    <3>4. CASE x # c /\ ~ (call[x].on = c /\ call[x].result = "none")
      <4>1. call'[x] = call[x]
        BY <1>8, <3>4 DEF CreatorReturns
      <4>. QED  BY <4>1 DEF VerdictIsFresh
    <3>. QED  BY <3>2, <3>3, <3>4
  <2>. QED  BY <1>0, <2>2, <2>3 DEF VerdictIsFresh, Witnessed
<1>9. ASSUME NEW c \in Callers, JoinerReturns(c) \/ Cancel(c)
      PROVE  VerdictIsFresh' /\ Witnessed'
  <2>1. \A x \in Callers : cycle'[x].result = cycle[x].result
    BY <1>9 DEF JoinerReturns, Cancel, TypeOK, CycleRecord
  <2>2. /\ \A x \in Callers \ {c} : call'[x] = call[x]
        /\ call'[c].on \in {None, call[c].on}
        /\ call'[c].result \in {"cancelled", call[c].result}
        /\ call'[c].confirmed = call[c].confirmed
    BY <1>9 DEF JoinerReturns, Cancel, TypeOK, CallRecord
  <2>. QED  BY <1>0, <2>1, <2>2 DEF VerdictIsFresh, Witnessed
<1>10. CASE UNCHANGED vars
  BY <1>10 DEF vars, VerdictIsFresh, Witnessed
<1>. QED
  BY <1>1, <1>2, <1>3, <1>4, <1>5, <1>6, <1>7, <1>8, <1>9, <1>10
    DEF Next, Calls, CycleTask, Resumes

(* poe.py:305-331: a caller that is told True waited for the cycle that    *)
(* came online, however many callers share cycles, are cancelled or return *)
(* late.                                                                   *)
THEOREM AlwaysFresh == Spec => []VerdictIsFresh
<1>1. Init => VerdictIsFresh /\ Witnessed
  BY DEF Init, VerdictIsFresh, Witnessed, NoCall, NoCycle
<1>2. TypeOK /\ Wired /\ [Next]_vars => TypeOK' /\ Wired'
  BY TypesKept, WiredKept
<1>. QED  BY <1>1, <1>2, WiredAtInit, WitnessedKept, PTL DEF Spec

-----------------------------------------------------------------------------
(* Truthful status *)

(* A port whose cycles did not overlap: there is at most one, its status   *)
(* is recovering while it runs, and power is back before it can succeed.   *)
Truthful(p) ==
  /\ \A c, e \in LiveCycles(p) : c = e
  /\ status[p] = "recovering" <=>
       \E c \in Callers : cycle[c].port = p /\ cycle[c].point \in Running
  /\ status[p] = "good" => power[p]
  /\ \A c \in Callers :
       cycle[c].port = p /\ cycle[c].point = "await_on" => power[p]

StatusIsTruthful == \A p \in Ports \ disturbed : Truthful(p)

(* A step that leaves alone what a port shows keeps it truthful.           *)
LEMMA TruthfulWhenLeft ==
  ASSUME NEW p, Truthful(p), status'[p] = status[p], power'[p] = power[p],
         \A c \in Callers :
           \/ cycle'[c].port = cycle[c].port /\ cycle'[c].point = cycle[c].point
           \/ /\ cycle'[c].port = p => cycle'[c].point \notin Live
              /\ cycle[c].port = p => cycle[c].point \notin Live
  PROVE  Truthful(p)'
<1>1. \A c \in Callers :
        /\ cycle'[c].port = p /\ cycle'[c].point \in Live <=>
             cycle[c].port = p /\ cycle[c].point \in Live
        /\ cycle'[c].port = p /\ cycle'[c].point \in Running <=>
             cycle[c].port = p /\ cycle[c].point \in Running
        /\ cycle'[c].port = p /\ cycle'[c].point = "await_on" <=>
             cycle[c].port = p /\ cycle[c].point = "await_on"
  BY DEF Live, Running
<1>2. LiveCycles(p)' = LiveCycles(p)
  BY <1>1 DEF LiveCycles
<1>. QED  BY <1>1, <1>2 DEF Truthful

(* The only live cycle of an undisturbed port is the one that steps.       *)
LEMMA OnlyLive ==
  ASSUME NEW c \in Callers, cycle[c].point \in Live, Truthful(cycle[c].port),
         NEW e \in Callers \ {c}, cycle[e].port = cycle[c].port
  PROVE  cycle[e].point \notin Live
BY DEF Truthful, LiveCycles

(* The only live cycle of a port goes on.                                  *)
LEMMA TruthfulWhileRunning ==
  ASSUME TypeOK, NEW c \in Callers, NEW p, cycle[c].port = p, Truthful(p),
         cycle[c].point \in Running,
         cycle'[c].port = p, cycle'[c].point \in Running,
         \A e \in Callers \ {c} : cycle'[e] = cycle[e],
         status'[p] = status[p],
         cycle'[c].point = "await_on" => power'[p]
  PROVE  Truthful(p)'
<1>1. \A e \in Callers \ {c} : cycle'[e].port = p => cycle'[e].point \notin Live
  BY OnlyLive DEF Live
<1>2. LiveCycles(p)' \subseteq {c}
  BY <1>1 DEF LiveCycles
<1>3. status'[p] = "recovering"
  BY DEF Truthful
<1>4. \A e \in Callers \ {c} : cycle'[e].port = p => cycle'[e].point # "await_on"
  BY <1>1 DEF Live, Running
<1>. QED  BY <1>2, <1>3, <1>4 DEF Truthful

(* The only live cycle of a port is over. *)
LEMMA TruthfulWhenOver ==
  ASSUME TypeOK, NEW c \in Callers, NEW p, cycle[c].port = p, Truthful(p),
         cycle[c].point \in Live, cycle'[c].point = "done",
         \A e \in Callers \ {c} : cycle'[e] = cycle[e],
         status'[p] # "recovering", status'[p] = "good" => power'[p]
  PROVE  Truthful(p)'
<1>1. \A e \in Callers : cycle'[e].port = p => cycle'[e].point \notin Live
  BY OnlyLive DEF Live, Running
<1>2. LiveCycles(p)' = {}
  BY <1>1 DEF LiveCycles
<1>3. \A e \in Callers : cycle'[e].port = p =>
        cycle'[e].point \notin Running /\ cycle'[e].point # "await_on"
  BY <1>1 DEF Live, Running
<1>. QED  BY <1>2, <1>3 DEF Truthful

LEMMA TruthfulKept ==
  TypeOK /\ Wired /\ StatusIsTruthful /\ [Next]_vars => StatusIsTruthful'
<1> SUFFICES ASSUME TypeOK, Wired, StatusIsTruthful, [Next]_vars,
                    NEW p \in Ports, p \notin disturbed'
             PROVE  Truthful(p)'
  BY DEF StatusIsTruthful
<1>1. ASSUME NEW q \in Ports, ReportChanges(q)
      PROVE  Truthful(p)'
  BY <1>1, TruthfulWhenLeft DEF ReportChanges, StatusIsTruthful
<1>2. ASSUME NEW c \in Callers, NEW d \in Devices,
             RepairRefused(c, d) \/ RepairJoins(c, d)
      PROVE  Truthful(p)'
  BY <1>2, TruthfulWhenLeft DEF RepairRefused, RepairJoins, StatusIsTruthful
<1>3. ASSUME NEW c \in Callers, NEW d \in Devices, RepairCreates(c, d)
      PROVE  Truthful(p)'
  <2>1. Resolve(d) \in Ports /\ p \notin disturbed /\ Truthful(p)
    BY <1>3, Resolution DEF RepairCreates, StatusIsTruthful
  <2>2. cycle[c].point = "none"
    BY <1>3, PoeFabricAssumption DEF RepairCreates, Idle, Wired
  <2>3. /\ cycle'[c].point = "created" /\ cycle'[c].port = Resolve(d)
        /\ \A e \in Callers \ {c} : cycle'[e] = cycle[e]
        /\ status' = status /\ power' = power
    BY <1>3 DEF RepairCreates, NoCycle, TypeOK
  <2>4. CASE p # Resolve(d)
    BY <2>1, <2>2, <2>3, <2>4, TruthfulWhenLeft DEF Live, Running
  <2>5. CASE p = Resolve(d)
    <3>1. LiveCycles(p) = {}
      BY <1>3, <2>5 DEF RepairCreates
    <3>2. LiveCycles(p)' \subseteq {c}
      BY <2>3, <3>1 DEF LiveCycles
    <3>3. \A e \in Callers :
            /\ cycle'[e].port = p => cycle'[e].point \notin Running
            /\ cycle[e].port = p => cycle[e].point \notin Running
      BY <2>3, <3>1 DEF LiveCycles, Live, Running
    <3>4. \A e \in Callers : cycle'[e].port = p => cycle'[e].point # "await_on"
      BY <3>3 DEF Running
    <3>. QED  BY <2>1, <2>3, <3>2, <3>3, <3>4 DEF Truthful
  <2>. QED  BY <2>4, <2>5
<1>4. ASSUME NEW c \in Callers, CycleStarts(c)
      PROVE  Truthful(p)'
  <2>1. /\ cycle[c].port \in Ports /\ cycle'[c].port = cycle[c].port
        /\ cycle[c].point = "created" /\ cycle'[c].point = "turn_off"
        /\ \A e \in Callers \ {c} : cycle'[e] = cycle[e]
    BY <1>4 DEF CycleStarts, At, GoTo, Wired, TypeOK, CycleRecord
  <2>2. CASE p # cycle[c].port
    <3>1. Truthful(p) /\ status'[p] = status[p] /\ power'[p] = power[p]
      BY <1>4, <2>2 DEF CycleStarts, StatusIsTruthful, TypeOK
    <3>. QED  BY <2>1, <2>2, <3>1, TruthfulWhenLeft
  <2>3. CASE p = cycle[c].port
    <3>1. c \in LiveCycles(p)
      BY <2>1, <2>3 DEF LiveCycles, Live
    <3>2. LiveCycles(p) = {c}
      <4>1. p \notin disturbed => LiveCycles(p) = {c}
        BY <3>1 DEF StatusIsTruthful, Truthful
      <4>. QED  BY <1>4, <2>3, <4>1 DEF CycleStarts
    <3>3. \A e \in Callers \ {c} :
            cycle'[e].port = p => cycle'[e].point \notin Live
      BY <2>1, <3>2 DEF LiveCycles
    <3>4. LiveCycles(p)' \subseteq {c}
      BY <3>3 DEF LiveCycles
    <3>5. status'[p] = "recovering"
      BY <1>4, <2>3 DEF CycleStarts, TypeOK
    <3>6. \A e \in Callers : cycle'[e].port = p => cycle'[e].point # "await_on"
      BY <2>1, <3>3 DEF Live, Running
    <3>. QED  BY <2>1, <2>3, <3>4, <3>5, <3>6 DEF Truthful, Running
  <2>. QED  BY <2>2, <2>3
<1>5. ASSUME NEW c \in Callers,
             TurnOffDone(c) \/ AwaitOffEnds(c) \/ SleepEnds(c) \/ TurnOnDone(c)
      PROVE  Truthful(p)'
  <2>1. /\ cycle[c].port \in Ports /\ cycle'[c].port = cycle[c].port
        /\ cycle[c].point \in Running /\ cycle'[c].point \in Running
        /\ \A e \in Callers \ {c} : cycle'[e] = cycle[e]
    BY <1>5 DEF TurnOffDone, AwaitOffEnds, SleepEnds, TurnOnDone, At, GoTo,
                Wired, TypeOK, CycleRecord, Running
  <2>2. /\ status' = status /\ disturbed' = disturbed
        /\ p # cycle[c].port => power'[p] = power[p]
    BY <1>5 DEF TurnOffDone, AwaitOffEnds, SleepEnds, TurnOnDone, TypeOK
  <2>3. Truthful(p)
    BY <2>2 DEF StatusIsTruthful
  <2>4. CASE p # cycle[c].port
    BY <2>1, <2>2, <2>3, <2>4, TruthfulWhenLeft
  <2>5. CASE p = cycle[c].port
    <3>1. cycle'[c].point = "await_on" => power'[p]
      BY <1>5, <2>5
        DEF TurnOffDone, AwaitOffEnds, SleepEnds, TurnOnDone, GoTo, TypeOK,
            CycleRecord
    <3>. QED  BY <2>1, <2>2, <2>3, <2>5, <3>1, TruthfulWhileRunning
  <2>. QED  BY <2>4, <2>5
<1>6. ASSUME NEW c \in Callers,
             ServiceRaises(c) \/ OnlineConfirmed(c) \/ OnlineTimesOut(c)
      PROVE  Truthful(p)'
  <2>1. PICK result \in {"raised", "true", "false"} :
          Settles(c, result) /\ (result = "true" => cycle[c].point = "await_on")
    BY <1>6 DEF ServiceRaises, OnlineConfirmed, OnlineTimesOut, At
  <2>2. cycle[c].point \in Running
    BY <1>6 DEF ServiceRaises, OnlineConfirmed, OnlineTimesOut, At, Running
  <2>3. /\ cycle[c].port \in Ports /\ cycle'[c].port = cycle[c].port
        /\ cycle'[c].point = "done"
        /\ \A e \in Callers \ {c} : cycle'[e] = cycle[e]
    BY <2>1, <2>2 DEF Settles, Done, Wired, TypeOK, CycleRecord, Running
  <2>4. power' = power /\ Truthful(p)
    BY <2>1 DEF Settles, StatusIsTruthful
  <2>5. CASE p # cycle[c].port
    <3>1. status'[p] = status[p]
      BY <2>1, <2>5 DEF Settles, TypeOK
    <3>. QED  BY <2>3, <2>4, <2>5, <3>1, TruthfulWhenLeft
  <2>6. CASE p = cycle[c].port
    <3>1. status'[p] = StatusAfter(result)
      BY <2>1, <2>6 DEF Settles, TypeOK
    <3>2. status'[p] # "recovering" /\ (status'[p] = "good" => result = "true")
      BY <3>1 DEF StatusAfter
    <3>3. result = "true" => power'[p]
      BY <2>1, <2>4, <2>6 DEF Truthful
    <3>. QED
      BY <2>2, <2>3, <2>4, <2>6, <3>2, <3>3, TruthfulWhenOver DEF Live
  <2>. QED  BY <2>5, <2>6
<1>7. ASSUME NEW c \in Callers, CycleCancelled(c)
      PROVE  Truthful(p)'
  <2>1. /\ cycle[c].port \in Ports /\ cycle'[c].port = cycle[c].port
        /\ cycle[c].point \in Live /\ cycle'[c].point = "done"
        /\ \A e \in Callers \ {c} : cycle'[e] = cycle[e]
    BY <1>7 DEF CycleCancelled, Done, Wired, TypeOK, CycleRecord, Live, Running
  <2>2. status' = status /\ Truthful(p)
    BY <1>7 DEF CycleCancelled, StatusIsTruthful
  <2>3. CASE p # cycle[c].port
    <3>1. power'[p] = power[p]
      BY <1>7, <2>3 DEF CycleCancelled, TypeOK
    <3>. QED  BY <2>1, <2>2, <2>3, <3>1, TruthfulWhenLeft
  <2>4. CASE p = cycle[c].port
    <3>1. cycle[c].point = "created"
      BY <1>7, <2>4 DEF CycleCancelled
    <3>2. power'[p] = power[p]
      BY <1>7, <2>4, <3>1 DEF CycleCancelled, TypeOK
    <3>3. status[p] # "recovering"
      BY <2>1, <2>2, <2>4, <3>1, OnlyLive DEF Truthful, Live, Running
    <3>. QED
      BY <2>1, <2>2, <2>4, <3>2, <3>3, TruthfulWhenOver DEF Truthful
  <2>. QED  BY <2>3, <2>4
<1>8. ASSUME NEW c \in Callers, CreatorReturns(c)
      PROVE  Truthful(p)'
  <2>1. /\ cycle[c].point \notin Live /\ cycle'[c].point \notin Live
        /\ \A e \in Callers \ {c} : cycle'[e] = cycle[e]
    BY <1>8 DEF CreatorReturns, NoCycle, TypeOK, Live, Running
  <2>2. /\ status' = status /\ power' = power /\ Truthful(p)
    BY <1>8 DEF CreatorReturns, StatusIsTruthful
  <2>. QED  BY <2>1, <2>2, TruthfulWhenLeft
<1>9. ASSUME NEW c \in Callers, JoinerReturns(c) \/ Cancel(c)
      PROVE  Truthful(p)'
  <2>1. \A e \in Callers : /\ cycle'[e].port = cycle[e].port
                           /\ cycle'[e].point = cycle[e].point
    BY <1>9 DEF JoinerReturns, Cancel, TypeOK, CycleRecord
  <2>2. /\ status' = status /\ power' = power /\ Truthful(p)
    BY <1>9 DEF JoinerReturns, Cancel, StatusIsTruthful
  <2>. QED  BY <2>1, <2>2, TruthfulWhenLeft
<1>10. CASE UNCHANGED vars
  BY <1>10, TruthfulWhenLeft DEF vars, StatusIsTruthful
<1>. QED
  BY <1>1, <1>2, <1>3, <1>4, <1>5, <1>6, <1>7, <1>8, <1>9, <1>10
    DEF Next, Calls, CycleTask, Resumes

(* poe.py:333-348: the status of a port is recovering exactly while its    *)
(* cycle runs, and good only with the power on, for any number of ports and*)
(* of callers, as long as its cycles do not overlap and are not cut off.   *)
THEOREM AlwaysTruthful == Spec => []StatusTellsPort
<1>1. Init => StatusIsTruthful
  BY DEF Init, StatusIsTruthful, Truthful, LiveCycles, NoCycle, Live, Running
<1>2. TypeOK /\ Wired /\ [Next]_vars => TypeOK' /\ Wired'
  BY TypesKept, WiredKept
<1>3. StatusIsTruthful => StatusTellsPort
  BY DEF StatusIsTruthful, Truthful, StatusTellsPort
<1>. QED  BY <1>1, <1>2, <1>3, WiredAtInit, TruthfulKept, PTL DEF Spec

-----------------------------------------------------------------------------
(* The right port *)

(* A call that is given a cycle is given one of a port that it resolved.   *)
GivenRightPort(c) ==
  LET p == cycle'[call'[c].on].port
      d == call'[c].device
  IN  /\ reports[p] \in {d, None}
      /\ \A q \in Ports \ {p} : reports[q] # d

(* Only repair takes a caller out of idleness. *)
LEMMA OnlyRepairCalls ==
  ASSUME TypeOK, Wired, Next, NEW c \in Callers, Idle(c), ~ Idle(c)'
  PROVE  \E d \in Devices : RepairJoins(c, d) \/ RepairCreates(c, d)
<1>1. ASSUME NEW p \in Ports, ReportChanges(p)
      PROVE  FALSE
  BY <1>1 DEF ReportChanges, Idle
<1>2. ASSUME NEW e \in Callers, NEW d \in Devices, RepairRefused(e, d)
      PROVE  FALSE
  BY <1>2 DEF RepairRefused, Idle, NoCall, TypeOK
<1>3. ASSUME NEW e \in Callers, NEW d \in Devices,
             RepairJoins(e, d) \/ RepairCreates(e, d)
      PROVE  e = c
  BY <1>3 DEF RepairJoins, RepairCreates, Idle, TypeOK
<1>4. ASSUME NEW e \in Callers, CycleTask(e)
      PROVE  FALSE
  <2>1. CASE OnlineConfirmed(e)
    <3>1. call'[c] \in {call[c], [call[c] EXCEPT !.confirmed = TRUE]}
      BY <2>1 DEF OnlineConfirmed
    <3>. QED  BY <3>1 DEF Idle, TypeOK, CallRecord
  <2>2. CASE ~ OnlineConfirmed(e)
    BY <1>4, <2>2
      DEF CycleTask, CycleStarts, TurnOffDone, AwaitOffEnds, SleepEnds,
          TurnOnDone, ServiceRaises, OnlineTimesOut, CycleCancelled, Idle
  <2>. QED  BY <2>1, <2>2
<1>5. ASSUME NEW e \in Callers, CreatorReturns(e)
      PROVE  FALSE
  <2>1. c # e
    BY <1>5, PoeFabricAssumption DEF CreatorReturns, Idle
  <2>2. call'[c] = call[c]
    BY <1>5, <2>1, PoeFabricAssumption DEF CreatorReturns, Idle
  <2>. QED  BY <2>2 DEF Idle
<1>6. ASSUME NEW e \in Callers, JoinerReturns(e) \/ Cancel(e)
      PROVE  FALSE
  <2>1. c # e
    BY <1>6 DEF JoinerReturns, Cancel, Idle
  <2>2. call'[c] = call[c]
    BY <1>6, <2>1 DEF JoinerReturns, Cancel, TypeOK
  <2>. QED  BY <2>2 DEF Idle
<1>. QED
  BY <1>1, <1>2, <1>3, <1>4, <1>5, <1>6 DEF Next, Calls, Resumes

(* poe.py:222-269: a call never gets hold of a port that another device is *)
(* seen on, nor of one of several candidates - also when it joins a cycle  *)
(* that was begun for another id or before ports changed what they report. *)
THEOREM FindsRightPort == Spec => RightPort
<1>1. ASSUME TypeOK, Wired, Next, NEW c \in Callers, Idle(c), ~ Idle(c)'
      PROVE  GivenRightPort(c)
  <2>1. PICK d \in Devices : RepairJoins(c, d) \/ RepairCreates(c, d)
    BY <1>1, OnlyRepairCalls
  <2>2. /\ Resolve(d) \in Ports
        /\ reports[Resolve(d)] \in {d, None}
        /\ \A q \in Ports \ {Resolve(d)} : reports[q] # d
    BY <1>1, <2>1, Resolution DEF RepairJoins, RepairCreates
  <2>3. call'[c].device = d
    BY <1>1, <2>1 DEF RepairJoins, RepairCreates, NewCall, TypeOK
  <2>4. cycle'[call'[c].on].port = Resolve(d)
    <3>1. CASE RepairJoins(c, d)
      <4>1. /\ call'[c].on = inflight[Resolve(d)] /\ cycle' = cycle
            /\ inflight[Resolve(d)] # None
        BY <1>1, <3>1 DEF RepairJoins, Joinable, NewCall, TypeOK
      <4>. QED  BY <1>1, <2>2, <4>1 DEF Wired
    <3>2. CASE RepairCreates(c, d)
      BY <1>1, <3>2 DEF RepairCreates, NewCall, NoCycle, TypeOK
    <3>. QED  BY <2>1, <3>1, <3>2
  <2>. QED  BY <2>2, <2>3, <2>4 DEF GivenRightPort
<1>2. TypeOK /\ Wired /\ [Next]_vars => TypeOK' /\ Wired'
  BY TypesKept, WiredKept
<1>3. TypeOK /\ Wired /\ [Next]_vars =>
        [\A c \in Callers : Idle(c) /\ ~ Idle(c)' =>
           LET p == cycle'[call'[c].on].port
               d == call'[c].device
           IN  /\ reports[p] \in {d, None}
               /\ \A q \in Ports \ {p} : reports[q] # d]_vars
  BY <1>1 DEF GivenRightPort
<1>. QED  BY <1>2, <1>3, WiredAtInit, PTL DEF Spec, RightPort
-----------------------------------------------------------------------------
(* Shared cycles *)

(* A finished task has a result, and the creator of a cycle that is cut    *)
(* off was itself cancelled.                                               *)
Owned ==
  \A c \in Callers :
    /\ cycle[c].point = "done" => cycle[c].result \in Verdicts
    /\ call[c].on = c => cycle[c].cancel = call[c].cancelled

LEMMA OwnedKept == TypeOK /\ Wired /\ Owned /\ [Next]_vars => Owned'
<1> SUFFICES ASSUME TypeOK, Wired, Owned, [Next]_vars PROVE Owned'
  OBVIOUS
<1>0. None \notin Callers
  BY PoeFabricAssumption
<1>1. ASSUME NEW p \in Ports, ReportChanges(p)
      PROVE  Owned'
  BY <1>1 DEF ReportChanges, Owned
<1>2. ASSUME NEW c \in Callers, NEW d \in Devices, RepairRefused(c, d)
      PROVE  Owned'
  <2>1. /\ call'[c].on = None /\ \A x \in Callers \ {c} : call'[x] = call[x]
        /\ cycle' = cycle
    BY <1>2 DEF RepairRefused, NoCall, TypeOK
  <2>. QED  BY <1>0, <2>1 DEF Owned
<1>3. ASSUME NEW c \in Callers, NEW d \in Devices, RepairJoins(c, d)
      PROVE  Owned'
  <2>1. Resolve(d) \in Ports
    BY <1>3, Resolution DEF RepairJoins
  <2>2. inflight[Resolve(d)] # c
    BY <1>0, <1>3, <2>1 DEF RepairJoins, Idle, Wired
  <2>3. /\ call'[c].on # c /\ \A x \in Callers \ {c} : call'[x] = call[x]
        /\ cycle' = cycle
    BY <1>3, <2>2 DEF RepairJoins, NewCall, TypeOK
  <2>. QED  BY <2>3 DEF Owned
<1>4. ASSUME NEW c \in Callers, NEW d \in Devices, RepairCreates(c, d)
      PROVE  Owned'
  <2>1. /\ call'[c].cancelled = FALSE
        /\ \A x \in Callers \ {c} : call'[x] = call[x]
    BY <1>4 DEF RepairCreates, NewCall, TypeOK
  <2>2. /\ cycle'[c].point = "created" /\ cycle'[c].cancel = FALSE
        /\ \A x \in Callers \ {c} : cycle'[x] = cycle[x]
    BY <1>4 DEF RepairCreates, NoCycle, TypeOK
  <2>. QED  BY <2>1, <2>2 DEF Owned
<1>5. ASSUME NEW c \in Callers,
             \/ CycleStarts(c) \/ TurnOffDone(c) \/ AwaitOffEnds(c)
             \/ SleepEnds(c) \/ TurnOnDone(c)
      PROVE  Owned'
  <2>1. PICK point \in Live : GoTo(c, point)
    BY <1>5 DEF CycleStarts, TurnOffDone, AwaitOffEnds, SleepEnds, TurnOnDone,
                Live, Running
  <2>2. /\ cycle'[c].point = point /\ cycle'[c].cancel = cycle[c].cancel
        /\ \A x \in Callers \ {c} : cycle'[x] = cycle[x]
    BY <2>1 DEF GoTo, TypeOK, CycleRecord
  <2>3. call' = call /\ point # "done"
    BY <1>5 DEF CycleStarts, TurnOffDone, AwaitOffEnds, SleepEnds, TurnOnDone,
                Live, Running
  <2>. QED  BY <2>2, <2>3 DEF Owned
<1>6. ASSUME NEW c \in Callers,
             \/ ServiceRaises(c) \/ OnlineConfirmed(c) \/ OnlineTimesOut(c)
             \/ CycleCancelled(c)
      PROVE  Owned'
  <2>1. PICK result \in Verdicts : Done(c, result)
    BY <1>6 DEF ServiceRaises, OnlineConfirmed, OnlineTimesOut, CycleCancelled,
                Settles, Verdicts
  <2>2. /\ cycle'[c].result = result /\ cycle'[c].cancel = cycle[c].cancel
        /\ \A x \in Callers \ {c} : cycle'[x] = cycle[x]
    BY <2>1 DEF Done, TypeOK, CycleRecord
  <2>3. ASSUME NEW x \in Callers
        PROVE  call'[x].on = call[x].on /\ call'[x].cancelled = call[x].cancelled
    <3>1. call'[x] \in {call[x], [call[x] EXCEPT !.confirmed = TRUE]}
      BY <1>6 DEF ServiceRaises, OnlineConfirmed, OnlineTimesOut, CycleCancelled
    <3>. QED  BY <3>1 DEF TypeOK, CallRecord
  <2>. QED  BY <2>2, <2>3 DEF Owned
<1>7. ASSUME NEW c \in Callers, CreatorReturns(c)
      PROVE  Owned'
  <2>1. /\ cycle'[c].point = "none"
        /\ \A x \in Callers \ {c} : cycle'[x] = cycle[x]
    BY <1>7 DEF CreatorReturns, NoCycle, TypeOK
  <2>2. call'[c].on = None
    BY <1>7 DEF CreatorReturns, TypeOK, CallRecord
  <2>3. ASSUME NEW x \in Callers \ {c}
        PROVE  call'[x].on = call[x].on /\ call'[x].cancelled = call[x].cancelled
    BY <1>7 DEF CreatorReturns, TypeOK, CallRecord
  <2>. QED  BY <1>0, <2>1, <2>2, <2>3 DEF Owned
<1>8. ASSUME NEW c \in Callers, JoinerReturns(c)
      PROVE  Owned'
  <2>1. /\ call'[c].on = None /\ \A x \in Callers \ {c} : call'[x] = call[x]
        /\ cycle' = cycle
    BY <1>8 DEF JoinerReturns, TypeOK, CallRecord
  <2>. QED  BY <1>0, <2>1 DEF Owned
<1>9. ASSUME NEW c \in Callers, Cancel(c)
      PROVE  Owned'
  <2>1. /\ call'[c].on = call[c].on /\ call'[c].cancelled = TRUE
        /\ \A x \in Callers \ {c} : call'[x] = call[x]
    BY <1>9 DEF Cancel, TypeOK, CallRecord
  <2>2. /\ call[c].on = c => cycle'[c].cancel = TRUE
        /\ \A x \in Callers \ {c} : cycle'[x] = cycle[x]
        /\ cycle'[c].point = cycle[c].point /\ cycle'[c].result = cycle[c].result
    BY <1>9 DEF Cancel, TypeOK, CycleRecord
  <2>. QED  BY <2>1, <2>2 DEF Owned
<1>10. CASE UNCHANGED vars
  BY <1>10 DEF vars, Owned
<1>. QED
  BY <1>1, <1>2, <1>3, <1>4, <1>5, <1>6, <1>7, <1>8, <1>9, <1>10
    DEF Next, Calls, CycleTask, Resumes

(* The steps of sharing, caller by caller. *)

Alone(c) == /\ call'[c].on = call[c].on
            /\ call'[c].cancelled = call[c].cancelled

(* Nobody's cycle begins or ends. *)
SameCycles ==
  \A x \in Callers : cycle'[x].point \in Live <=> cycle[x].point \in Live

(* Only the call of c changes, and no cycle that another awaits. *)
Others(c) ==
  \A x \in Callers \ {c} : Alone(x) /\ AnswerOf(x)' = AnswerOf(x)

LEMMA NothingShared ==
  ASSUME SameCycles, \A x \in Callers : Alone(x) /\ AnswerOf(x)' = AnswerOf(x)
  PROVE  UNCHANGED Shared!vars
BY DEF Shared!vars, SameCycles, Alone

LEMMA SharedRefuse ==
  ASSUME NEW c \in Callers, SameCycles, Others(c), call[c].on = None,
         call'[c].on = None, AnswerOf(c)' = "false", ~call'[c].cancelled
  PROVE  Shared!Refuse(c)
BY DEF Shared!Refuse, SameCycles, Others, Alone

LEMMA SharedStart ==
  ASSUME NEW c \in Callers, Others(c), call[c].on = None,
         call'[c].on = c, AnswerOf(c)' = "none", ~call'[c].cancelled,
         cycle'[c].point \in Live,
         \A x \in Callers \ {c} : cycle'[x] = cycle[x]
  PROVE  Shared!Start(c)
BY DEF Shared!Start, Others, Alone

LEMMA SharedJoin ==
  ASSUME NEW c \in Callers, NEW e \in Callers, SameCycles, Others(c),
         call[c].on = None, cycle[e].point \in Live,
         call'[c].on = e, AnswerOf(c)' = "none", ~call'[c].cancelled
  PROVE  Shared!Join(c, e)
BY DEF Shared!Join, SameCycles, Others, Alone

LEMMA SharedFinish ==
  ASSUME NEW e \in Callers, cycle[e].point \in Live, cycle'[e].point \notin Live,
         \A x \in Callers \ {e} : cycle'[x] = cycle[x],
         NEW verdict \in Verdicts, verdict = "cancelled" <=> call[e].cancelled,
         \A x \in Callers :
           /\ Alone(x)
           /\ AnswerOf(x)' = IF call[x].on = e /\ AnswerOf(x) = "none"
                               THEN verdict ELSE AnswerOf(x)
  PROVE  Shared!Finish(e)
<1> DEFINE answers == [c \in Callers |-> AnswerOf(c)]
           waits == [c \in Callers |-> call[c].on]
<1>1. [c \in Callers |-> AnswerOf(c)]'
        = [c \in Callers |-> IF waits[c] = e /\ answers[c] = "none" THEN verdict
                             ELSE answers[c]]
  OBVIOUS
<1>2. {c \in Callers : cycle'[c].point \in Live}
        = {c \in Callers : cycle[c].point \in Live} \ {e}
  OBVIOUS
<1>3. /\ e \in {c \in Callers : cycle[c].point \in Live}
      /\ call[e].cancelled <=> e \in {c \in Callers : call[c].cancelled}
  OBVIOUS
<1>4. /\ {c \in Callers : call'[c].cancelled} = {c \in Callers : call[c].cancelled}
      /\ [c \in Callers |-> call'[c].on] = waits
  BY DEF Alone
<1>. QED  BY <1>1, <1>2, <1>3, <1>4 DEF Shared!Finish, Shared!Verdicts, Verdicts

LEMMA SharedCancel ==
  ASSUME NEW c \in Callers, SameCycles, Others(c), call[c].on # None,
         call'[c].on = call[c].on, AnswerOf(c)' = "cancelled", call'[c].cancelled
  PROVE  Shared!Cancel(c)
BY DEF Shared!Cancel, SameCycles, Others, Alone

LEMMA SharedReturn ==
  ASSUME NEW c \in Callers, SameCycles, Others(c), call[c].on # None,
         AnswerOf(c) # "none", cycle[c].point \notin Live,
         call'[c].on = None, AnswerOf(c)' = AnswerOf(c),
         call'[c].cancelled = call[c].cancelled
  PROVE  Shared!Return(c)
BY DEF Shared!Return, SameCycles, Others, Alone

(* The answer that a call has coming depends on its record and on the      *)
(* result of the cycle it awaits.                                          *)
LEMMA AnswerStays ==
  ASSUME NEW x \in Callers, call'[x] = call[x],
         call[x].on # None => cycle'[call[x].on].result = cycle[call[x].on].result
  PROVE  Alone(x) /\ AnswerOf(x)' = AnswerOf(x)
BY DEF Alone, AnswerOf

(* A call that finds a port or none. *)
LEMMA CallShares ==
  ASSUME TypeOK, Wired, Owned, NEW c \in Callers, Calls(c)
  PROVE  Shared!Next
<1>0. None \notin Callers /\ call[c].on = None /\ cycle[c].point = "none"
  BY PoeFabricAssumption DEF Calls, RepairRefused, RepairJoins, RepairCreates,
                             Idle, Wired
<1>1. ASSUME NEW d \in Devices, RepairRefused(c, d)
      PROVE  Shared!Refuse(c)
  <2>1. /\ call'[c] = NoCall("false") /\ cycle' = cycle
        /\ \A x \in Callers \ {c} : call'[x] = call[x]
    BY <1>1 DEF RepairRefused, TypeOK
  <2>2. call'[c].on = None /\ ~call'[c].cancelled /\ call'[c].result = "false"
    BY <2>1 DEF NoCall
  <2>3. AnswerOf(c)' = "false"
    BY <1>0, <2>2 DEF AnswerOf
  <2>4. SameCycles /\ Others(c)
    BY <2>1, AnswerStays DEF SameCycles, Others
  <2>. QED  BY <1>0, <2>2, <2>3, <2>4, SharedRefuse
<1>2. ASSUME NEW d \in Devices, RepairJoins(c, d)
      PROVE  \E e \in Callers : Shared!Join(c, e)
  <2> DEFINE e == inflight[Resolve(d)]
  <2>1. Resolve(d) \in Ports
    BY <1>2, Resolution DEF RepairJoins
  <2>2. e \in Callers /\ cycle[e].point \in Live
    BY <1>2, <2>1 DEF RepairJoins, Joinable, TypeOK
  <2>3. /\ call'[c] = NewCall(e, d) /\ cycle' = cycle
        /\ \A x \in Callers \ {c} : call'[x] = call[x]
    BY <1>2 DEF RepairJoins, TypeOK
  <2> HIDE DEF e
  <2>4. call'[c].on = e /\ ~call'[c].cancelled /\ call'[c].result = "none"
    BY <2>3 DEF NewCall
  <2>5. cycle[e].result = "none"
    BY <2>2 DEF Wired, Live, Running
  <2>6. AnswerOf(c)' = "none"
    BY <1>0, <2>2, <2>3, <2>4, <2>5 DEF AnswerOf
  <2>7. SameCycles /\ Others(c)
    BY <2>3, AnswerStays DEF SameCycles, Others
  <2>. QED  BY <1>0, <2>2, <2>4, <2>6, <2>7, SharedJoin
<1>3. ASSUME NEW d \in Devices, RepairCreates(c, d)
      PROVE  Shared!Start(c)
  <2>1. /\ call'[c] = NewCall(c, d)
        /\ \A x \in Callers \ {c} : call'[x] = call[x]
    BY <1>3 DEF RepairCreates, TypeOK
  <2>2. call'[c].on = c /\ ~call'[c].cancelled /\ call'[c].result = "none"
    BY <2>1 DEF NewCall
  <2>3. /\ cycle'[c].point = "created" /\ cycle'[c].result = "none"
        /\ \A x \in Callers \ {c} : cycle'[x] = cycle[x]
    BY <1>3 DEF RepairCreates, NoCycle, TypeOK
  <2>4. AnswerOf(c)' = "none"
    BY <1>0, <2>2, <2>3 DEF AnswerOf
  <2>5. cycle[c].result = "none"
    BY <1>0 DEF Wired
  <2>6. ASSUME NEW x \in Callers \ {c}
        PROVE  Alone(x) /\ AnswerOf(x)' = AnswerOf(x)
    <3>1. call[x].on \in Callers \cup {None}
      BY DEF TypeOK, CallRecord
    <3>2. call[x].on # None =>
            cycle'[call[x].on].result = cycle[call[x].on].result
      BY <2>3, <2>5, <3>1
    <3>. QED  BY <2>1, <3>2, AnswerStays
  <2>7. Others(c)
    BY <2>6 DEF Others
  <2>8. cycle'[c].point \in Live
    BY <2>3 DEF Live
  <2>. QED  BY <1>0, <2>2, <2>3, <2>4, <2>7, <2>8, SharedStart
<1>. QED  BY <1>1, <1>2, <1>3 DEF Calls, Shared!Next

(* The end of a cycle answers those who wait for it. *)
LEMMA EndShares ==
  ASSUME TypeOK, Wired, Owned, NEW c \in Callers,
         cycle[c].point \in Live, NEW result \in Verdicts, Done(c, result),
         result = "cancelled" <=> cycle[c].cancel,
         \A x \in Callers : /\ Alone(x)
                            /\ call'[x].result = call[x].result
  PROVE  Shared!Finish(c)
<1>0. None \notin Callers
  BY PoeFabricAssumption
<1>1. /\ call[c].on = c /\ call[c].result = "none" /\ cycle[c].result = "none"
  BY DEF Wired, Live, Running
<1>2. /\ cycle'[c].point = "done" /\ cycle'[c].result = result
      /\ \A x \in Callers \ {c} : cycle'[x] = cycle[x]
  BY DEF Done, TypeOK, CycleRecord
<1>3. result = "cancelled" <=> call[c].cancelled
  BY <1>1 DEF Owned
<1>4. result # "none"
  BY DEF Verdicts
<1>5. ASSUME NEW x \in Callers
      PROVE  AnswerOf(x)' = IF call[x].on = c /\ AnswerOf(x) = "none"
                              THEN result ELSE AnswerOf(x)
  <2>1. /\ call'[x].on = call[x].on /\ call'[x].cancelled = call[x].cancelled
        /\ call'[x].result = call[x].result
        /\ call[x].on \in Callers \cup {None}
    BY DEF Alone, TypeOK, CallRecord
  <2>2. CASE x = c
    BY <1>0, <1>1, <1>2, <1>3, <2>1, <2>2 DEF AnswerOf
  <2>3. CASE x # c /\ call[x].on = c
    BY <1>0, <1>1, <1>2, <2>1, <2>3 DEF AnswerOf
  <2>4. CASE x # c /\ call[x].on # c
    BY <1>2, <2>1, <2>4 DEF AnswerOf
  <2>. QED  BY <2>2, <2>3, <2>4
<1>6. cycle'[c].point \notin Live
  BY <1>2 DEF Live, Running
<1>. QED  BY <1>2, <1>3, <1>5, <1>6, SharedFinish

LEMMA TaskShares ==
  ASSUME TypeOK, Wired, Owned, NEW c \in Callers, CycleTask(c)
  PROVE  [Shared!Next]_Shared!vars
<1>1. CASE \/ CycleStarts(c) \/ TurnOffDone(c) \/ AwaitOffEnds(c)
           \/ SleepEnds(c) \/ TurnOnDone(c)
  <2>1. PICK from \in Live, point \in Live : At(c, from) /\ GoTo(c, point)
    BY <1>1 DEF CycleStarts, TurnOffDone, AwaitOffEnds, SleepEnds, TurnOnDone,
                Live, Running
  <2>2. /\ cycle[c].point \in Live /\ cycle'[c].point \in Live
        /\ cycle'[c].result = cycle[c].result
        /\ \A x \in Callers \ {c} : cycle'[x] = cycle[x]
    BY <2>1 DEF At, GoTo, TypeOK, CycleRecord
  <2>3. call' = call
    BY <1>1 DEF CycleStarts, TurnOffDone, AwaitOffEnds, SleepEnds, TurnOnDone
  <2>4. SameCycles
    BY <2>2 DEF SameCycles
  <2>5. ASSUME NEW x \in Callers
        PROVE  Alone(x) /\ AnswerOf(x)' = AnswerOf(x)
    <3>1. call[x].on \in Callers \cup {None}
      BY DEF TypeOK, CallRecord
    <3>. QED  BY <2>2, <2>3, <3>1, AnswerStays
  <2>. QED  BY <2>4, <2>5, NothingShared
<1>2. CASE \/ ServiceRaises(c) \/ OnlineConfirmed(c) \/ OnlineTimesOut(c)
           \/ CycleCancelled(c)
  <2>1. cycle[c].point \in Live
    BY <1>2 DEF ServiceRaises, OnlineConfirmed, OnlineTimesOut, CycleCancelled,
                At, Live, Running
  <2>2. PICK result \in Verdicts :
          Done(c, result) /\ (result = "cancelled" <=> cycle[c].cancel)
    BY <1>2 DEF ServiceRaises, OnlineConfirmed, OnlineTimesOut, CycleCancelled,
                Settles, At, Verdicts
  <2>3. ASSUME NEW x \in Callers
        PROVE  Alone(x) /\ call'[x].result = call[x].result
    <3>1. call'[x] \in {call[x], [call[x] EXCEPT !.confirmed = TRUE]}
      BY <1>2 DEF ServiceRaises, OnlineConfirmed, OnlineTimesOut, CycleCancelled
    <3>. QED  BY <3>1 DEF TypeOK, CallRecord, Alone
  <2>4. Shared!Finish(c)
    BY <2>1, <2>2, <2>3, EndShares
  <2>. QED  BY <2>4 DEF Shared!Next
<1>. QED  BY <1>1, <1>2 DEF CycleTask

(* The creator takes its answer along, and leaves theirs to its joiners.   *)
LEMMA CreatorShares ==
  ASSUME TypeOK, Wired, Owned, NEW c \in Callers, CreatorReturns(c)
  PROVE  Shared!Return(c)
<1>0. None \notin Callers
  BY PoeFabricAssumption
<1>1. /\ call[c].on = c /\ call[c].result = "none" /\ cycle[c].point = "done"
      /\ cycle[c].result # "none" /\ cycle[c].cancel = call[c].cancelled
      /\ call[c].cancelled \in BOOLEAN
  BY DEF CreatorReturns, Wired, Owned, Verdicts, TypeOK, CallRecord
<1>2. /\ cycle'[c].point = "none" /\ cycle'[c].result = "none"
      /\ \A x \in Callers \ {c} : cycle'[x] = cycle[x]
  BY DEF CreatorReturns, NoCycle, TypeOK
<1>3. /\ call'[c].on = None /\ call'[c].cancelled = call[c].cancelled
      /\ call'[c].result = IF cycle[c].cancel THEN "cancelled" ELSE cycle[c].result
  BY DEF CreatorReturns, TypeOK, CallRecord
<1>4. AnswerOf(c) # "none" /\ AnswerOf(c)' = AnswerOf(c)
  BY <1>0, <1>1, <1>3 DEF AnswerOf
<1>5. ASSUME NEW x \in Callers \ {c}
      PROVE  Alone(x) /\ AnswerOf(x)' = AnswerOf(x)
  <2>1. call[x] \in CallRecord
    BY DEF TypeOK
  <2>2. CASE call[x].on = c /\ call[x].result = "none"
    <3>1. call'[x] = [call[x] EXCEPT !.result = cycle[c].result]
      BY <2>2 DEF CreatorReturns
    <3>2. /\ call'[x].on = c /\ call'[x].cancelled = call[x].cancelled
          /\ call'[x].result = cycle[c].result
      BY <2>1, <2>2, <3>1 DEF CallRecord
    <3>. QED  BY <1>0, <1>1, <2>2, <3>2 DEF Alone, AnswerOf
  <2>3. CASE ~ (call[x].on = c /\ call[x].result = "none")
    <3>1. call'[x] = call[x] /\ call[x].on \in Callers \cup {None}
      BY <2>1, <2>3 DEF CreatorReturns, CallRecord
    <3>. QED  BY <1>2, <2>3, <3>1 DEF Alone, AnswerOf
  <2>. QED  BY <2>2, <2>3
<1>6. SameCycles
  BY <1>1, <1>2 DEF SameCycles, Live, Running
<1>7. cycle[c].point \notin Live
  BY <1>1 DEF Live, Running
<1>8. Others(c)
  BY <1>5 DEF Others
<1>. QED  BY <1>0, <1>1, <1>3, <1>4, <1>6, <1>7, <1>8, SharedReturn

LEMMA JoinerShares ==
  ASSUME TypeOK, Wired, NEW c \in Callers, JoinerReturns(c)
  PROVE  Shared!Return(c)
<1>0. None \notin Callers
  BY PoeFabricAssumption
<1>1. call[c].on \notin {c, None} /\ call[c].result # "none"
  BY DEF JoinerReturns
<1>2. /\ call'[c].on = None /\ call'[c].cancelled = call[c].cancelled
      /\ call'[c].result = call[c].result
      /\ \A x \in Callers \ {c} : call'[x] = call[x]
      /\ cycle' = cycle
  BY DEF JoinerReturns, TypeOK, CallRecord
<1>3. AnswerOf(c) # "none" /\ AnswerOf(c)' = AnswerOf(c)
  BY <1>0, <1>1, <1>2 DEF AnswerOf
<1>4. SameCycles /\ Others(c)
  BY <1>2, AnswerStays DEF SameCycles, Others
<1>5. cycle[c].point \notin Live
  BY <1>1 DEF Wired, Live, Running
<1>. QED  BY <1>1, <1>2, <1>3, <1>4, <1>5, SharedReturn

LEMMA CancelShares ==
  ASSUME TypeOK, Wired, NEW c \in Callers, Cancel(c)
  PROVE  Shared!Cancel(c)
<1>1. /\ call'[c].on = call[c].on /\ call'[c].cancelled = TRUE
      /\ call[c].on # c => call'[c].result = "cancelled"
      /\ call[c].on # None
      /\ \A x \in Callers \ {c} : call'[x] = call[x]
  BY DEF Cancel, Idle, TypeOK, CallRecord
<1>2. \A x \in Callers : /\ cycle'[x].point = cycle[x].point
                         /\ cycle'[x].result = cycle[x].result
  BY DEF Cancel, TypeOK, CycleRecord
<1>3. AnswerOf(c)' = "cancelled"
  BY <1>1 DEF AnswerOf
<1>4. ASSUME NEW x \in Callers \ {c}
      PROVE  Alone(x) /\ AnswerOf(x)' = AnswerOf(x)
  <2>1. call[x].on \in Callers \cup {None}
    BY DEF TypeOK, CallRecord
  <2>. QED  BY <1>1, <1>2, <2>1, AnswerStays
<1>5. SameCycles /\ Others(c)
  BY <1>2, <1>4 DEF SameCycles, Others
<1>. QED  BY <1>1, <1>3, <1>5, SharedCancel

LEMMA StepShares ==
  TypeOK /\ Wired /\ Owned /\ [Next]_vars => [Shared!Next]_Shared!vars
<1> SUFFICES ASSUME TypeOK, Wired, Owned, [Next]_vars
             PROVE  [Shared!Next]_Shared!vars
  OBVIOUS
<1>1. CASE UNCHANGED vars \/ \E p \in Ports : ReportChanges(p)
  <2>1. call' = call /\ cycle' = cycle
    BY <1>1 DEF vars, ReportChanges
  <2>2. SameCycles /\ \A x \in Callers : Alone(x) /\ AnswerOf(x)' = AnswerOf(x)
    BY <2>1 DEF SameCycles, Alone, AnswerOf
  <2>. QED  BY <2>2, NothingShared
<1>2. ASSUME NEW c \in Callers, Calls(c) \/ Resumes(c) \/ Cancel(c)
      PROVE  Shared!Next
  BY <1>2, CallShares, CreatorShares, JoinerShares, CancelShares
    DEF Resumes, Shared!Next
<1>. QED  BY <1>1, <1>2, TaskShares DEF Next

LEMMA InitShares == Init => Shared!Init /\ Owned
<1> SUFFICES ASSUME Init PROVE Shared!Init /\ Owned
  OBVIOUS
<1>1. \A c \in Callers : /\ call[c].on = None /\ call[c].result = "none"
                         /\ call[c].cancelled = FALSE
                         /\ cycle[c].point = "none"
  BY DEF Init, NoCall, NoCycle
<1>2. None \notin Callers
  BY PoeFabricAssumption
<1>3. \A c \in Callers : AnswerOf(c) = "none" /\ cycle[c].point \notin Live
  BY <1>1, <1>2 DEF AnswerOf, Live, Running
<1>. QED  BY <1>1, <1>2, <1>3 DEF Shared!Init, Owned

(* poe.py:308-331: the fabric implements the sharing of cycles, whatever   *)
(* the number of callers and ports: a cycle answers those who wait for it  *)
(* when it ends, and a joiner's cancellation is its own affair.            *)
THEOREM SharesCycles == Spec => RefinesShared
<1>1. TypeOK /\ Wired /\ [Next]_vars => TypeOK' /\ Wired'
  BY TypesKept, WiredKept
<1>. QED
  BY <1>1, WiredAtInit, InitShares, OwnedKept, StepShares, PTL
    DEF Spec, RefinesShared, Shared!Spec
=============================================================================
