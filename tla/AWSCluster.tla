----------------------------- MODULE AWSCluster -----------------------------
(***************************************************************************)
(* The AWS test cluster of platform/aws.go: NewMachine calls, each run by  *)
(* a goroutine of the test harness, and the cluster's Destroy, against EC2 *)
(* instances that boot on their own time.  The table ac.machs is guarded   *)
(* by ac.mu, so addMach, delMach and the Machines() snapshot are atomic;   *)
(* every EC2 call is a step of its own.  Worker w's NewMachine creates the *)
(* instance named w.                                                      *)
(*                                                                         *)
(* FailingCalls names the EC2 and SSH calls that may return an error:     *)
(* config.NewCloudConfig, agent.UpdateConfig and RunInstances fail before *)
(* an instance exists; DescribeInstances inside or after the wait, the    *)
(* SSH retries and TerminateInstances fail after.                         *)
(***************************************************************************)
EXTENDS FiniteSets

CONSTANTS
  Workers,       \* NewMachine calls, one instance each
  FailingCalls,  \* calls that may return an error
  None           \* Destroy is between two machines

Calls == {"RunInstances", "DescribeInstances", "SSH", "TerminateInstances"}

ASSUME FailingCalls \subseteq Calls
ASSUME None \notin Workers

VARIABLES
  pc,        \* per worker: where its NewMachine is
  ec2,       \* per instance: its EC2 state
  timedOut,  \* per worker: the time.After(5*time.Minute) of its wait fired
  machs,     \* ac.machs: the instances the cluster tracks
  dpc,       \* the cluster's Destroy: not called, looping, or returned
  snap,      \* the Machines() snapshot Destroy has yet to destroy
  dcur       \* the machine Destroy terminated and has yet to delMach

vars == <<pc, ec2, timedOut, machs, dpc, snap, dcur>>

Returned == {"done", "failed"}

Fails(call) == call \in FailingCalls

Init ==
  /\ pc = [w \in Workers |-> "idle"]
  /\ ec2 = [w \in Workers |-> "none"]
  /\ timedOut = [w \in Workers |-> FALSE]
  /\ machs = {}
  /\ dpc = "idle"
  /\ snap = {}
  /\ dcur = None

-----------------------------------------------------------------------------
(* NewMachine *)

\* Cloud config, agent and RunInstances: an error returns before any
\* instance exists; otherwise the instance is pending and the wait starts.
RunInstances(w) ==
  /\ pc[w] = "idle"
  /\ \/ Fails("RunInstances") /\ pc' = [pc EXCEPT ![w] = "failed"] /\ UNCHANGED ec2
     \/ pc' = [pc EXCEPT ![w] = "wait"] /\ ec2' = [ec2 EXCEPT ![w] = "pending"]
  /\ UNCHANGED <<timedOut, machs, dpc, snap, dcur>>

\* The instance reaches state 16 (running) with port 22 open.
Boot(w) ==
  /\ ec2[w] = "pending"
  /\ ec2' = [ec2 EXCEPT ![w] = "running"]
  /\ UNCHANGED <<pc, timedOut, machs, dpc, snap, dcur>>

\* The wait's timer fires.
TimerFires(w) ==
  /\ pc[w] = "wait"
  /\ ~timedOut[w]
  /\ timedOut' = [timedOut EXCEPT ![w] = TRUE]
  /\ UNCHANGED <<pc, ec2, machs, dpc, snap, dcur>>

\* Fault variant: the loop never looks at the timer.
WaitPollNoTimeout(w) ==
  /\ pc[w] = "wait"
  /\ ec2[w] = "running"
  /\ pc' = [pc EXCEPT ![w] = "describe"]
  /\ UNCHANGED <<ec2, timedOut, machs, dpc, snap, dcur>>

\* Fault variant: a timed-out wait is taken for a successful one.
WaitPollTimeoutOK(w) ==
  /\ pc[w] = "wait"
  /\ timedOut[w] \/ ec2[w] = "running"
  /\ pc' = [pc EXCEPT ![w] = "describe"]
  /\ UNCHANGED <<ec2, timedOut, machs, dpc, snap, dcur>>

\* One turn of waitForAWSInstances' loop: a fired timer returns the
\* timeout error, and NewMachine returns it with the instance still
\* running; otherwise, after the sleep, DescribeInstances finds the
\* instance running and reachable and the loop ends.  A turn that finds
\* it pending changes nothing.
WaitPoll(w) ==
  /\ pc[w] = "wait"
  /\ IF timedOut[w]
       THEN pc' = [pc EXCEPT ![w] = "failed"]
       ELSE ec2[w] = "running" /\ pc' = [pc EXCEPT ![w] = "describe"]
  /\ UNCHANGED <<ec2, timedOut, machs, dpc, snap, dcur>>

\* DescribeInstances inside the wait returns an error: so does NewMachine.
WaitPollFails(w) ==
  /\ pc[w] = "wait"
  /\ ~timedOut[w]
  /\ Fails("DescribeInstances")
  /\ pc' = [pc EXCEPT ![w] = "failed"]
  /\ UNCHANGED <<ec2, timedOut, machs, dpc, snap, dcur>>

\* The DescribeInstances after the wait; an error is returned as is.
Describe(w) ==
  /\ pc[w] = "describe"
  /\ \/ pc' = [pc EXCEPT ![w] = "ssh"]
     \/ Fails("DescribeInstances") /\ pc' = [pc EXCEPT ![w] = "failed"]
  /\ UNCHANGED <<ec2, timedOut, machs, dpc, snap, dcur>>

\* util.Retry(sshRetries, sshTimeout, sshchecker): a client, or
\* mach.Destroy() once the retries are spent.
SSHConnect(w) ==
  /\ pc[w] = "ssh"
  /\ \/ pc' = [pc EXCEPT ![w] = "add"]
     \/ Fails("SSH") /\ pc' = [pc EXCEPT ![w] = "cleanup"]
  /\ UNCHANGED <<ec2, timedOut, machs, dpc, snap, dcur>>

\* mach.Destroy() on the failed SSH path: TerminateInstances, whose error
\* is dropped, then delMach of a machine never added; NewMachine returns
\* the SSH error.
Cleanup(w) ==
  /\ pc[w] = "cleanup"
  /\ pc' = [pc EXCEPT ![w] = "failed"]
  /\ \/ ec2' = [ec2 EXCEPT ![w] = "terminated"]
     \/ Fails("TerminateInstances") /\ UNCHANGED ec2
  /\ UNCHANGED <<timedOut, machs, dpc, snap, dcur>>

\* ac.addMach(mach), and the machine is returned.
AddMach(w) ==
  /\ pc[w] = "add"
  /\ machs' = machs \cup {w}
  /\ pc' = [pc EXCEPT ![w] = "done"]
  /\ UNCHANGED <<ec2, timedOut, dpc, snap, dcur>>

-----------------------------------------------------------------------------
(* awsCluster.Destroy *)

\* machs := ac.Machines(), under the lock.
Snapshot ==
  /\ dpc = "idle"
  /\ dpc' = "loop"
  /\ snap' = machs
  /\ UNCHANGED <<pc, ec2, timedOut, machs, dcur>>

\* Fault variant: the machine leaves the table before EC2 terminates it.
DestroyTerminateDelFirst ==
  /\ dpc = "loop" /\ dcur = None
  /\ \E m \in snap :
       /\ machs' = machs \ {m}
       /\ \/ ec2' = [ec2 EXCEPT ![m] = "terminated"] /\ dcur' = m /\ snap' = snap
          \/ Fails("TerminateInstances") /\ snap' = snap \ {m} /\ UNCHANGED <<ec2, dcur>>
  /\ UNCHANGED <<pc, timedOut, dpc>>

\* am.Destroy() for the next machine of the snapshot, in Go's map order:
\* TerminateInstances; an error returns at once, the machine stays in the
\* table and Destroy ignores the error.
DestroyTerminate ==
  /\ dpc = "loop" /\ dcur = None
  /\ \E m \in snap :
       \/ ec2' = [ec2 EXCEPT ![m] = "terminated"] /\ dcur' = m /\ snap' = snap
       \/ Fails("TerminateInstances") /\ snap' = snap \ {m} /\ UNCHANGED <<ec2, dcur>>
  /\ UNCHANGED <<pc, timedOut, machs, dpc>>

\* ac.delMach(am) after a successful TerminateInstances.
DestroyDelMach ==
  /\ dcur # None
  /\ machs' = machs \ {dcur}
  /\ snap' = snap \ {dcur}
  /\ dcur' = None
  /\ UNCHANGED <<pc, ec2, timedOut, dpc>>

\* ac.agent.Close(); Destroy returns.
AgentClose ==
  /\ dpc = "loop" /\ snap = {} /\ dcur = None
  /\ dpc' = "closed"
  /\ UNCHANGED <<pc, ec2, timedOut, machs, snap, dcur>>

Next ==
  \/ \E w \in Workers :
       \/ RunInstances(w) \/ Boot(w) \/ TimerFires(w) \/ WaitPoll(w)
       \/ WaitPollFails(w) \/ Describe(w) \/ SSHConnect(w) \/ Cleanup(w)
       \/ AddMach(w)
  \/ Snapshot \/ DestroyTerminate \/ DestroyDelMach \/ AgentClose

\* Every goroutine runs while it has a step to take and the wait's timer
\* fires; an instance need never boot and no call need fail.
Fairness ==
  /\ \A w \in Workers :
       /\ WF_vars(RunInstances(w)) /\ WF_vars(TimerFires(w)) /\ WF_vars(WaitPoll(w))
       /\ WF_vars(Describe(w)) /\ WF_vars(SSHConnect(w)) /\ WF_vars(Cleanup(w))
       /\ WF_vars(AddMach(w))
  /\ WF_vars(Snapshot) /\ WF_vars(DestroyTerminate)
  /\ WF_vars(DestroyDelMach) /\ WF_vars(AgentClose)

Spec == Init /\ [][Next]_vars /\ Fairness

-----------------------------------------------------------------------------
(* Properties *)

\* A machine NewMachine returned leaves ac.machs only once EC2 has
\* terminated it: a failed TerminateInstances keeps it tracked.
UntrackedOnlyWhenTerminated ==
  \A w \in Workers : (pc[w] = "done" /\ w \notin machs) => ec2[w] = "terminated"

\* Every machine in ac.machs is a running instance, save the one Destroy
\* has terminated and not yet deleted: NewMachine adds only instances its
\* wait saw running.
TrackedAreRunning ==
  \A w \in machs : ec2[w] = "running" \/ w = dcur

\* Every NewMachine call returns, whether or not its instance ever boots.
NewMachineReturns == <>(\A w \in Workers : pc[w] \in Returned)

\* Once every NewMachine has returned and Destroy has returned, no instance
\* of the cluster is left running on EC2.
NoInstanceLeak ==
  ((\A w \in Workers : pc[w] \in Returned) /\ dpc = "closed") =>
    \A w \in Workers : ec2[w] \in {"none", "terminated"}

=============================================================================
