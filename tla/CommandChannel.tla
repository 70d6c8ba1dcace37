--------------------------- MODULE CommandChannel ---------------------------
(***************************************************************************)
(* What osdpmaster promises of the commands that MQTT clients publish for  *)
(* a slave, without retries, sequence numbers, threads or a line: they are *)
(* executed in the order of their arrival, each at most once, unless the   *)
(* slave forgets what it executed.  A command may be given up: all of them *)
(* when the slave is offline, the oldest one when an answer to another     *)
(* frame is taken for its acknowledgement.                                 *)
(***************************************************************************)
EXTENDS Naturals, Sequences

CONSTANTS
  Slaves,
  MaxCmds   \* bound: how many commands arrive

VARIABLES
  arrived,   \* how many commands have arrived; they are named by their order
  pending,   \* by slave: the commands that wait to be executed
  executed,  \* by slave: the commands it executed, in order
  amnesia    \* by slave: it does not know what it executed last

chVars == <<arrived, pending, executed, amnesia>>

ChInit ==
  /\ arrived = 0
  /\ pending = [s \in Slaves |-> << >>]
  /\ executed = [s \in Slaves |-> << >>]
  /\ amnesia \in [Slaves -> BOOLEAN]

Arrive(s) ==
  /\ arrived < MaxCmds
  /\ arrived' = arrived + 1
  /\ pending' = [pending EXCEPT ![s] = Append(@, arrived + 1)]
  /\ UNCHANGED <<executed, amnesia>>

\* The oldest command is executed.
Execute(s) ==
  /\ pending[s] # << >>
  /\ pending' = [pending EXCEPT ![s] = Tail(@)]
  /\ executed' = [executed EXCEPT ![s] = Append(@, Head(pending[s]))]
  /\ amnesia' = [amnesia EXCEPT ![s] = FALSE]
  /\ UNCHANGED arrived

\* A slave that lost its memory executes its last command again.
ExecuteAgain(s) ==
  /\ amnesia[s]
  /\ executed[s] # << >>
  /\ executed' = [executed EXCEPT ![s] = Append(@, executed[s][Len(executed[s])])]
  /\ amnesia' = [amnesia EXCEPT ![s] = FALSE]
  /\ UNCHANGED <<arrived, pending>>

\* The oldest command, or all of them, are given up.
GiveUp(s) ==
  /\ pending[s] # << >>
  /\ \/ pending' = [pending EXCEPT ![s] = Tail(@)]
     \/ pending' = [pending EXCEPT ![s] = << >>]
  /\ UNCHANGED <<arrived, executed, amnesia>>

\* The slave is told something else, after which it knows where it is, or it
\* forgets.
Remember(s) ==
  /\ amnesia[s]
  /\ amnesia' = [amnesia EXCEPT ![s] = FALSE]
  /\ UNCHANGED <<arrived, pending, executed>>

Forget(s) ==
  /\ ~amnesia[s]
  /\ amnesia' = [amnesia EXCEPT ![s] = TRUE]
  /\ UNCHANGED <<arrived, pending, executed>>

ChNext ==
  \E s \in Slaves :
    Arrive(s) \/ Execute(s) \/ ExecuteAgain(s) \/ GiveUp(s) \/ Remember(s) \/ Forget(s)

ChSpec == ChInit /\ [][ChNext]_chVars
=============================================================================
