------------------------------ MODULE PoeFabric ------------------------------
(***************************************************************************)
(* The PoE fabric (core/poe.py): from the id of a device it finds the      *)
(* switch port the device hangs on and power-cycles that port.  Guards     *)
(* with a poe_port driver and the repair_poe_port service share it; a call *)
(* for a port whose cycle is in flight joins that cycle.                   *)
(*                                                                         *)
(* A caller is the guard task or the service call that awaits repair.  The *)
(* cycle it creates is an asyncio task of its own, so the end of a cycle   *)
(* and the return of its callers are separate steps of the loop.  A caller *)
(* may be cancelled (a guard when its entry reloads, a service call when   *)
(* its script is stopped).  Whether a service raises and whether the       *)
(* port's status entity ever reads as expected is left open.  A port with  *)
(* a fixed id is one whose report never changes.                           *)
(***************************************************************************)
EXTENDS Integers, FiniteSets, FiniteSetsExt

CONSTANTS Ports,    \* the configured ports, by their place in the list
          Devices,  \* the ids that guards and services look for
          Callers,  \* concurrent callers of repair
          None      \* no port, no device, no caller

ASSUME PoeFabricAssumption ==
  /\ IsFiniteSet(Ports) /\ Ports = 1 .. Cardinality(Ports)
  /\ None \notin Ports \cup Devices \cup Callers

VARIABLES reports,   \* what each port's id source reads
          cache,     \* last-known port of each device
          status,    \* status of each port
          inflight,  \* the creator of the cycle registered for each port
          power,     \* whether each port is powered
          call,      \* each caller's call of repair
          cycle,     \* the cycle task each caller created
          disturbed  \* history: ports whose last cycles overlapped or were cut off

vars == <<reports, cache, status, inflight, power, call, cycle, disturbed>>

Status == {"good", "recovering", "failed"}
Verdicts == {"true", "false", "raised", "cancelled"}

(* on: the creator of the awaited cycle.  A joiner whose verdict is there  *)
(* has yet to run.  confirmed and cancelled are histories of this call.    *)
CallRecord ==
  [on : Callers \cup {None}, device : Devices \cup {None},
   result : Verdicts \cup {"none"}, confirmed : BOOLEAN, cancelled : BOOLEAN]

NoCall(result) ==
  [on |-> None, device |-> None, result |-> result, confirmed |-> FALSE,
   cancelled |-> FALSE]

Running == {"turn_off", "await_off", "sleep", "turn_on", "await_on"}
Live == {"created"} \cup Running

CycleRecord ==
  [point : Live \cup {"none", "done"}, port : Ports \cup {None},
   result : Verdicts \cup {"none"}, cancel : BOOLEAN]

NoCycle == [point |-> "none", port |-> None, result |-> "none", cancel |-> FALSE]

(* Every variable of the fabric has its type. *)
TypeOK ==
  /\ reports \in [Ports -> Devices \cup {None}]
  /\ cache \in [Devices -> Ports \cup {None}]
  /\ status \in [Ports -> Status]
  /\ inflight \in [Ports -> Callers \cup {None}]
  /\ power \in [Ports -> BOOLEAN]
  /\ call \in [Callers -> CallRecord]
  /\ cycle \in [Callers -> CycleRecord]
  /\ disturbed \subseteq Ports

-----------------------------------------------------------------------------
(* Resolution *)

Reporting(d) == {p \in Ports : reports[p] = d}

(* _relearn goes through the ports in order, so the last one reporting an  *)
(* id is the one remembered; an id nobody reports keeps its last port.     *)
Relearn(known, read) ==
  [d \in Devices |->
     LET at == {p \in Ports : read[p] = d}
     IN  IF at = {} THEN known[d] ELSE Max(at)]

(* Mutant: the last-known port is used whatever sits there now. *)
ResolveTrustingCache(d) ==
  IF Cardinality(Reporting(d)) = 1 THEN Max(Reporting(d))
  ELSE IF Reporting(d) = {} THEN cache[d]
  ELSE None

(* One live match; without any, the last-known port if nothing is seen     *)
(* there.  None is a refusal.                                              *)
Resolve(d) ==
  IF Cardinality(Reporting(d)) = 1 THEN Max(Reporting(d))
  ELSE IF Reporting(d) = {} /\ cache[d] # None /\ reports[cache[d]] = None
    THEN cache[d]
  ELSE None

(* What a resolution leaves in the cache: a live match is learned, a port  *)
(* that now serves another device is forgotten.                            *)
Learned(d) ==
  CASE Cardinality(Reporting(d)) = 1 -> [cache EXCEPT ![d] = Max(Reporting(d))]
    [] Reporting(d) = {} /\ Resolve(d) = None -> [cache EXCEPT ![d] = None]
    [] OTHER -> cache

-----------------------------------------------------------------------------
(* set_ports on a new fabric: the stored cache, then what is read now. *)
Init ==
  /\ reports \in [Ports -> Devices \cup {None}]
  /\ \E stored \in [Devices -> Ports \cup {None}] :
       cache = Relearn(stored, reports)
  /\ status = [p \in Ports |-> "good"]
  /\ inflight = [p \in Ports |-> None]
  /\ power = [p \in Ports |-> TRUE]
  /\ call = [c \in Callers |-> NoCall("none")]
  /\ cycle = [c \in Callers |-> NoCycle]
  /\ disturbed = {}

(* A port reports another id, or none: _on_change relearns at once. *)
ReportChanges(p) ==
  /\ \E d \in (Devices \cup {None}) \ {reports[p]} :
       reports' = [reports EXCEPT ![p] = d]
  /\ cache' = Relearn(cache, reports')
  /\ UNCHANGED <<status, inflight, power, call, cycle, disturbed>>

-----------------------------------------------------------------------------
(* repair, up to its await *)

Idle(c) == call[c].on = None

LiveCycles(p) == {c \in Callers : cycle[c].port = p /\ cycle[c].point \in Live}

(* Mutant: a finished task still counts. *)
JoinableIgnoringDone(p) == inflight[p] # None

(* A task is registered for the port and has not finished. *)
Joinable(p) == inflight[p] # None /\ cycle[inflight[p]].point \in Live

NewCall(e, d) ==
  [on |-> e, device |-> d, result |-> "none", confirmed |-> FALSE,
   cancelled |-> FALSE]

RepairRefused(c, d) ==
  /\ Idle(c)
  /\ Resolve(d) = None
  /\ cache' = Learned(d)
  /\ call' = [call EXCEPT ![c] = NoCall("false")]
  /\ UNCHANGED <<reports, status, inflight, power, cycle, disturbed>>

RepairJoins(c, d) ==
  /\ Idle(c)
  /\ Resolve(d) # None
  /\ Joinable(Resolve(d))
  /\ cache' = Learned(d)
  /\ call' = [call EXCEPT ![c] = NewCall(inflight[Resolve(d)], d)]
  /\ UNCHANGED <<reports, status, inflight, power, cycle, disturbed>>

RepairCreates(c, d) ==
  LET p == Resolve(d)
  IN  /\ Idle(c)
      /\ p # None
      /\ ~Joinable(p)
      /\ cache' = Learned(d)
      /\ cycle' = [cycle EXCEPT ![c] = [NoCycle EXCEPT !.point = "created",
                                                       !.port = p]]
      /\ inflight' = [inflight EXCEPT ![p] = c]
      /\ call' = [call EXCEPT ![c] = NewCall(c, d)]
      /\ disturbed' = IF LiveCycles(p) = {} THEN disturbed
                      ELSE disturbed \cup {p}
      /\ UNCHANGED <<reports, status, power>>

-----------------------------------------------------------------------------
(* The cycle task: cut power, await offline, pause, restore, await online. *)

At(c, point) == cycle[c].point = point /\ ~cycle[c].cancel

GoTo(c, point) == cycle' = [cycle EXCEPT ![c].point = point]

Done(c, result) ==
  cycle' = [cycle EXCEPT ![c].point = "done", ![c].result = result]

CycleStarts(c) ==
  /\ At(c, "created")
  /\ GoTo(c, "turn_off")
  /\ status' = [status EXCEPT ![cycle[c].port] = "recovering"]
  /\ disturbed' = IF LiveCycles(cycle[c].port) = {c}
                    THEN disturbed \ {cycle[c].port} ELSE disturbed
  /\ UNCHANGED <<reports, cache, inflight, power, call>>

TurnOffDone(c) ==
  /\ At(c, "turn_off")
  /\ GoTo(c, "await_off")
  /\ power' = [power EXCEPT ![cycle[c].port] = FALSE]
  /\ UNCHANGED <<reports, cache, status, inflight, call, disturbed>>

(* The port read as offline, or it did not in time: the cycle goes on. *)
AwaitOffEnds(c) ==
  /\ At(c, "await_off")
  /\ GoTo(c, "sleep")
  /\ UNCHANGED <<reports, cache, status, inflight, power, call, disturbed>>

SleepEnds(c) ==
  /\ At(c, "sleep")
  /\ GoTo(c, "turn_on")
  /\ UNCHANGED <<reports, cache, status, inflight, power, call, disturbed>>

TurnOnDone(c) ==
  /\ At(c, "turn_on")
  /\ GoTo(c, "await_on")
  /\ power' = [power EXCEPT ![cycle[c].port] = TRUE]
  /\ UNCHANGED <<reports, cache, status, inflight, call, disturbed>>

(* Mutant: the except clause does not settle the status. *)
StatusAfterRaising(result) ==
  IF result = "true" THEN "good" ELSE IF result = "raised" THEN "recovering"
  ELSE "failed"

(* Mutant: the value of the status entity is stored. *)
StatusAfterOnline(result) == IF result = "true" THEN "online" ELSE "failed"

StatusAfter(result) == IF result = "true" THEN "good" ELSE "failed"

Settles(c, result) ==
  /\ Done(c, result)
  /\ status' = [status EXCEPT ![cycle[c].port] = StatusAfter(result)]
  /\ UNCHANGED <<reports, cache, inflight, power, disturbed>>

ServiceRaises(c) ==
  /\ At(c, "turn_off") \/ At(c, "turn_on")
  /\ Settles(c, "raised")
  /\ UNCHANGED call

OnlineConfirmed(c) ==
  /\ At(c, "await_on")
  /\ Settles(c, "true")
  /\ call' = [x \in Callers |->
                IF call[x].on = c /\ call[x].result = "none"
                  THEN [call[x] EXCEPT !.confirmed = TRUE]
                  ELSE call[x]]

OnlineTimesOut(c) ==
  /\ At(c, "await_on")
  /\ Settles(c, "false")
  /\ UNCHANGED call

(* CancelledError passes through: no status is set.  A task that never ran *)
(* just ends; a service call that was under way may still take effect.     *)
CycleCancelled(c) ==
  /\ cycle[c].point \in Live /\ cycle[c].cancel
  /\ Done(c, "cancelled")
  /\ \E effect \in BOOLEAN :
       power' = [power EXCEPT ![cycle[c].port] =
                   CASE effect /\ cycle[c].point = "turn_off" -> FALSE
                     [] effect /\ cycle[c].point = "turn_on"  -> TRUE
                     [] OTHER -> @]
  /\ disturbed' = IF cycle[c].point = "created" THEN disturbed
                  ELSE disturbed \cup {cycle[c].port}
  /\ UNCHANGED <<reports, cache, status, inflight, call>>

-----------------------------------------------------------------------------
(* The callers resume *)

(* The creator resumes first and unregisters its port; then the finished   *)
(* task hands its result to the callers that joined it.                    *)
CreatorReturns(c) ==
  /\ call[c].on = c
  /\ cycle[c].point = "done"
  /\ inflight' = [inflight EXCEPT ![cycle[c].port] = None]
  /\ call' = [x \in Callers |->
                CASE x = c ->
                       [call[c] EXCEPT !.on = None, !.device = None,
                          !.result = IF cycle[c].cancel THEN "cancelled"
                                     ELSE cycle[c].result]
                  [] x # c /\ call[x].on = c /\ call[x].result = "none" ->
                       [call[x] EXCEPT !.result = cycle[c].result]
                  [] OTHER -> call[x]]
  /\ cycle' = [cycle EXCEPT ![c] = NoCycle]
  /\ UNCHANGED <<reports, cache, status, power, disturbed>>

JoinerReturns(c) ==
  /\ call[c].on \notin {c, None}
  /\ call[c].result # "none"
  /\ call' = [call EXCEPT ![c].on = None, ![c].device = None]
  /\ UNCHANGED <<reports, cache, status, inflight, power, cycle, disturbed>>

(* The creator awaits its task, so cancelling the creator cancels the      *)
(* task; a joiner awaits a shield, so only the joiner is cancelled.        *)
Cancel(c) ==
  /\ ~Idle(c) /\ ~call[c].cancelled
  /\ IF call[c].on = c
       THEN /\ cycle' = [cycle EXCEPT ![c].cancel = TRUE]
            /\ call' = [call EXCEPT ![c].cancelled = TRUE]
       ELSE /\ call' = [call EXCEPT ![c].cancelled = TRUE,
                                    ![c].result = "cancelled"]
            /\ UNCHANGED cycle
  /\ UNCHANGED <<reports, cache, status, inflight, power, disturbed>>

-----------------------------------------------------------------------------
CycleTask(c) ==
  CycleStarts(c) \/ TurnOffDone(c) \/ AwaitOffEnds(c) \/ SleepEnds(c)
  \/ TurnOnDone(c) \/ ServiceRaises(c) \/ OnlineConfirmed(c)
  \/ OnlineTimesOut(c) \/ CycleCancelled(c)

Resumes(c) == CreatorReturns(c) \/ JoinerReturns(c)

Calls(c) ==
  \E d \in Devices : RepairRefused(c, d) \/ RepairJoins(c, d) \/ RepairCreates(c, d)

Next ==
  \/ \E p \in Ports : ReportChanges(p)
  \/ \E c \in Callers : Calls(c) \/ CycleTask(c) \/ Resumes(c) \/ Cancel(c)

Spec == Init /\ [][Next]_vars

-----------------------------------------------------------------------------
(* Properties *)

(* A caller that is told True saw its port come online while it waited: it *)
(* never gets the verdict of a cycle that was over when it called.         *)
VerdictIsFresh ==
  \A c \in Callers : call[c].result = "true" => call[c].confirmed

(* Unless its cycles overlapped or were cut off, a port's status tells the *)
(* truth: recovering exactly while a cycle runs, so never stranded there,  *)
(* and good without a cycle only with the power back on.                   *)
StatusTellsPort ==
  \A p \in Ports \ disturbed :
    /\ status[p] = "recovering" <=>
         \E c \in Callers : cycle[c].port = p /\ cycle[c].point \in Running
    /\ status[p] = "good" /\ LiveCycles(p) = {} => power[p]

(* A call never gets hold of a port that another device is seen on, nor of *)
(* one of several candidates.                                              *)
RightPort ==
  [][\A c \in Callers :
       Idle(c) /\ ~Idle(c)' =>
         LET p == cycle'[call'[c].on].port
             d == call'[c].device
         IN  /\ reports[p] \in {d, None}
             /\ \A q \in Ports \ {p} : reports[q] # d]_vars

(* poe.py:308-309: a call that joins a cycle shares its result, so it is   *)
(* not cancelled unless it was cancelled itself.                           *)
JoinersAreSpared ==
  \A c \in Callers : call[c].result = "cancelled" => call[c].cancelled
=============================================================================
