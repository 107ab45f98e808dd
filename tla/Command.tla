------------------------------ MODULE Command -------------------------------
(***************************************************************************)
(* What every lclaw command shares: a process that works alone on its own  *)
(* variables and meets the world one external call at a time, each of them *)
(* a child process (src/internal/adapters/exec/system.go). Commands take   *)
(* no lock, so several may run at once; a signal cancels the context,      *)
(* which kills the child; between calls the code looks at the context only *)
(* where it says ctx.Err().                                                *)
(***************************************************************************)
EXTENDS Keychain

CONSTANTS
  Proc,       \* processes that may run at the same time
  Topologies, \* contents lclaw.toml may have whenever a command loads it
  Jobs,       \* commands they may be given
  Faults,     \* which disturbances happen ...
  MaxFaults   \* ... and, a bound of the model, how many in all

VARIABLES
  proc,   \* each process: where it is and its locals
  budget  \* disturbances left

vars == <<podmanVars, keychainVars, proc, budget>>

\* destroy with a zone named is refused as a usage error before anything runs.
Job == {j \in [cmd : {"up", "down"}, roles : (SUBSET Role) \ {{}}, destroy : BOOLEAN] :
          j.destroy => j.cmd = "down" /\ j.roles = Role}

ASSUME CommandAssumption ==
  /\ Topologies \subseteq Topology
  /\ Topologies # {}
  /\ Jobs \subseteq Job
  /\ Faults \subseteq {"error", "interrupt", "crash", "reboot"}
  /\ MaxFaults \in Nat

UpLabels == {"users", "init", "start", "nets", "mknet", "zone", "mint", "put", "play"}
DownLabels == {"list", "pods", "down", "rmnet", "purge", "purgevol", "stop",
               "rm", "forget", "delitem"}
SecretsLabels == {"have", "produce", "save", "push", "send",
                  "erase", "inspect", "exists", "drop"}

Local == [pc : {"idle"} \union UpLabels \union DownLabels \union SecretsLabels,
          cmd : {"up", "down", "set", "update", "generate", "delete"},
          roles : SUBSET Role, destroy : BOOLEAN,
          top : Topologies,                 \* the topology load returned
          zones : SUBSET Role,              \* zones still to do
          work : Seq(Workload),             \* workloads of this zone still to do
          todo : SUBSET Secret,             \* names still to do in this loop
          got : [Secret -> Maybe(Value)],   \* resolved, not yet injected
          fresh : Maybe(Value),             \* made, not yet in the keychain
          present : SUBSET Workload,        \* pods as down listed them
          kept : BOOLEAN,                   \* a pod of this zone is still there
          failed : BOOLEAN,                 \* the report has a FAIL
          cancelled : BOOLEAN,              \* a signal arrived
          exit : {"none", "ok", "failed", "interrupted", "crashed"}]

NoneGot == [s \in Secret |-> None]

\* A process that runs nothing; the exit status is that of its last command.
Idle(code) ==
  [pc |-> "idle", cmd |-> "up", roles |-> {}, destroy |-> FALSE,
   top |-> CHOOSE t \in Topologies : TRUE,
   zones |-> {}, work |-> <<>>, todo |-> {}, got |-> NoneGot, fresh |-> None,
   present |-> {}, kept |-> FALSE, failed |-> FALSE, cancelled |-> FALSE,
   exit |-> code]

CommandInit ==
  /\ PodmanInit
  /\ KeychainInit
  /\ proc = [p \in Proc |-> Idle("none")]
  /\ budget = MaxFaults

At(p, label) == proc[p].pc = label

Become(p, me) == proc' = [proc EXCEPT ![p] = me]

-----------------------------------------------------------------------------
(* How a command ends (src/internal/cli/exit.go): 0 when no check failed,  *)
(* 1 or 2 when one did or on an error, 130 when the error is the           *)
(* cancellation.                                                           *)

\* Wrong on purpose: a FAIL in the report does not reach the exit status.
ReportAlwaysOk(me) == Idle("ok")

Report(me) == Idle(IF me.failed THEN "failed" ELSE "ok")
ReturnError(me) == Idle(IF me.cancelled THEN "interrupted" ELSE "failed")

-----------------------------------------------------------------------------
(* One external call. It succeeds with its effect, or is refused, or is    *)
(* disturbed: killed because the context is cancelled, or failing for a    *)
(* reason of its own. A disturbed call may have had its effect.            *)

Disturbed(me) ==
  \/ me.cancelled /\ UNCHANGED budget
  \/ ~me.cancelled /\ "error" \in Faults /\ budget > 0 /\ budget' = budget - 1

Call(p, can, effect, done, failure) ==
  \/ can /\ ~proc[p].cancelled /\ effect /\ Become(p, done) /\ UNCHANGED budget
  \/ ~can /\ UNCHANGED <<podmanVars, keychainVars, budget>> /\ Become(p, failure)
  \/ /\ can /\ Disturbed(proc[p])
     /\ effect \/ UNCHANGED <<podmanVars, keychainVars>>
     /\ Become(p, failure)

PodmanCall(p, can, effect, done, failure) ==
  Call(p, can, effect /\ UNCHANGED keychainVars, done, failure)

KeychainCall(p, can, effect, done, failure) ==
  Call(p, can, effect /\ UNCHANGED podmanVars, done, failure)

\* A call that only reads.
Query(p, can, done, failure) ==
  Call(p, can, UNCHANGED <<podmanVars, keychainVars>>, done, failure)

\* Steps that call nothing.
LocalStep(p, me) == Become(p, me) /\ UNCHANGED <<podmanVars, keychainVars, budget>>

\* LiteLLM never issues a key twice. A key that nothing holds any more, except
\* LiteLLM itself, is as good as new, so finitely many stand for all of them.
Held ==
  {items[s].val : s \in {s \in Secret : IsSet(s)}}
  \union {store[s] : s \in Secret} \union {vols[s] : s \in Secret}
  \union {pods[w].env[s] : w \in ListPods, s \in Secret}
  \union {proc[p].got[s] : p \in Proc, s \in Secret} \union {proc[p].fresh : p \in Proc}

-----------------------------------------------------------------------------
(* What happens to a command from outside                                  *)

Busy(p) == proc[p].pc # "idle"

Disturb(kind) == kind \in Faults /\ budget > 0 /\ budget' = budget - 1

\* SIGINT or SIGTERM (src/cmd/lclaw/main.go).
Interrupt(p) ==
  /\ Busy(p) /\ ~proc[p].cancelled
  /\ Disturb("interrupt")
  /\ Become(p, [proc[p] EXCEPT !.cancelled = TRUE])
  /\ UNCHANGED <<podmanVars, keychainVars>>

\* The process disappears between two calls.
Crash(p) ==
  /\ Busy(p)
  /\ Disturb("crash")
  /\ Become(p, Idle("crashed"))
  /\ UNCHANGED <<podmanVars, keychainVars>>

\* The host restarts: every process is gone, the machine is down, its disk
\* and the keychain remain.
Reboot ==
  /\ Running
  /\ Disturb("reboot")
  /\ DoStop
  /\ proc' = [p \in Proc |-> IF Busy(p) THEN Idle("crashed") ELSE proc[p]]
  /\ UNCHANGED keychainVars

=============================================================================
