----------------------------- MODULE CallTable -----------------------------
(***************************************************************************)
(* What the client promises to those who call the Core, without threads,   *)
(* pipes, pending requests and ways to end: a call is made once and ends   *)
(* once; its request is sent once at most, and only while it is being      *)
(* made; a result it returns is the Core's answer to this very request.    *)
(* What nobody is there to hear any more is lost.                          *)
(***************************************************************************)
CONSTANT Calls

Reply(c, ok) == [kind |-> "reply", to |-> c, ok |-> ok]

VARIABLES call,    \* how each call stands: "none", "made", "returned" or "raised"
          asked,   \* the requests the Core has been sent
          answers  \* what it has answered

Init ==
  /\ call = [c \in Calls |-> "none"]
  /\ asked = {} /\ answers = {}

Turns(c, from, to) ==
  /\ call[c] = from /\ call'[c] = to   \* the latter to spare TLC the comparison of tables
  /\ call' = [call EXCEPT ![c] = to]

Begin(c) == Turns(c, "none", "made") /\ UNCHANGED <<asked, answers>>

Ask(c) ==
  /\ call[c] = "made" /\ c \notin asked
  /\ asked' = asked \cup {c}
  /\ UNCHANGED <<call, answers>>

Answer(c, ok) ==
  /\ c \in asked /\ \A a \in answers : a.to # c
  /\ answers' = answers \cup {Reply(c, ok)}
  /\ UNCHANGED <<call, asked>>

Return(c) ==
  /\ Reply(c, TRUE) \in answers
  /\ Turns(c, "made", "returned") /\ UNCHANGED <<asked, answers>>

Raise(c) == Turns(c, "made", "raised") /\ UNCHANGED <<asked, answers>>

Next ==
  \E c \in Calls :
    \/ Begin(c) \/ Ask(c) \/ Return(c) \/ Raise(c)
    \/ \E ok \in BOOLEAN : Answer(c, ok)

Spec == Init /\ [][Next]_<<call, asked, answers>>
=============================================================================
