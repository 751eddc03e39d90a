---------------------------- MODULE PluginCalls ----------------------------
(***************************************************************************)
(* What a plugin runtime promises the host, without its goroutines,        *)
(* channels and interrupts: every call is answered once, JavaScript of one *)
(* call at a time runs, a call made after the runtime was closed gets no   *)
(* answer of the plugin, and when Shutdown has returned nothing runs.      *)
(***************************************************************************)
CONSTANTS Callers, Closers, Outcome, NoAnswer

\* The outcome the plugin itself produced.
ByPlugin == "plugin"

VARIABLES
  status,    \* of each caller: no call, a call, a call made after closing
  answer,    \* what each caller's last call returned
  executing, \* does the VM run a request
  closed,    \* has the runtime been closed
  released   \* the goroutines whose Shutdown has returned

vars == <<status, answer, executing, closed, released>>

Init ==
  /\ status = [c \in Callers |-> "idle"]
  /\ answer = [c \in Callers |-> NoAnswer]
  /\ executing = FALSE
  /\ closed = FALSE
  /\ released = {}

Ask(c) ==
  /\ status[c] = "idle"
  /\ status' = [status EXCEPT ![c] = IF closed THEN "late" ELSE "asked"]
  /\ answer' = [answer EXCEPT ![c] = NoAnswer]
  /\ UNCHANGED <<executing, closed, released>>

Start ==
  /\ ~executing /\ ~closed
  /\ executing' = TRUE
  /\ UNCHANGED <<status, answer, closed, released>>

Stop ==
  /\ executing
  /\ executing' = FALSE
  /\ UNCHANGED <<status, answer, closed, released>>

\* The call of c returns o; a late one gets no answer of the plugin.
Answer(c, o) ==
  /\ status[c] # "idle"
  /\ o = ByPlugin => status[c] = "asked"
  /\ status' = [status EXCEPT ![c] = "idle"]
  /\ answer' = [answer EXCEPT ![c] = o]
  /\ UNCHANGED <<executing, closed, released>>

Close ==
  /\ ~closed
  /\ closed' = TRUE
  /\ UNCHANGED <<status, answer, executing, released>>

Release(k) ==
  /\ closed /\ ~executing
  /\ released' = released \cup {k}
  /\ UNCHANGED <<status, answer, executing, closed>>

Next ==
  \/ Start \/ Stop \/ Close
  \/ \E c \in Callers : Ask(c) \/ \E o \in Outcome : Answer(c, o)
  \/ \E k \in Closers : Release(k)

Spec == Init /\ [][Next]_vars

=============================================================================
