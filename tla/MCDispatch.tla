----------------------------- MODULE MCDispatch -----------------------------
(* Instances of Dispatch for TLC. *)
EXTENDS Dispatch, TLC

OneStage == [t \in 1..NumTasks |-> 1]
StagePerTask == [t \in 1..NumTasks |-> t]

SchedulerSymmetry == Permutations(Schedulers)

(* The schedules searched for a second claim: three schedulers lead in turn, *)
(* each until it has started the task, before anyone claims it; then the     *)
(* first leads again, and the third is the last to claim.                    *)
Started(s) == run[s].pc = "wait"
Unclaiming(s) == gor[s][1].pc \in {"off", "claim"} /\ gor[s][1].att <= 1
Relay ==
  /\ Len(reign) = 0 => \A s \in Schedulers : recon[s] = IdleRecon
  /\ \A i, j \in 1..Len(reign) : reign[i] = reign[j] <=> (i - j) % 3 = 0
  /\ \A i \in 1..Len(reign) - 1 : Started(reign[i])
  /\ \A s \in Schedulers : recon[s].pc # "idle" => IsLeader(s)
  /\ Len(reign) < 4 => \A s \in Schedulers : Unclaiming(s)
  /\ Len(reign) = 4 /\ taskRow[1].state # "FAILED" => Unclaiming(reign[3])
  /\ execs = {}
=============================================================================
