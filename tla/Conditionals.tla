----------------------------- MODULE Conditionals -----------------------------
(* What if, elseif, else, while and for promise: a stack of conditionals, of   *)
(* which a command is executed when all are on, and passed over otherwise.     *)
(* What is met next is up to the patch: command is left open.                  *)
EXTENDS Integers, Sequences

VARIABLES stack,      \* the conditionals that are open, the innermost one last
          command,    \* <<v>> when a command is met that writes v, otherwise <<>>
          out,        \* what has been written
          failed      \* an error has been found: nothing is promised

vars == <<stack, command, out, failed>>

\* on: the branch is assembled.  seek: a later one may be.  done: one has been.
\* off: none is, a loop that does not run or a conditional within such a branch.
Status == {"on", "seek", "done", "off"}
AllOn == LET s == stack IN \A i \in DOMAIN s : s[i] = "on"
Top == stack[Len(stack)]
Outer == SubSeq(stack, 1, Len(stack) - 1)

Init == stack = <<>> /\ command = <<>> /\ out = <<>> /\ failed = FALSE

Open ==
  \E s \in Status : /\ s \in (IF AllOn THEN {"on", "seek", "off"} ELSE {"off"})
                    /\ stack' = Append(stack, s)
Close == stack # <<>> /\ stack' = Outer
NextBranch ==     \* else, and an elseif that holds
  /\ stack # <<>>
  /\ \/ AllOn /\ stack' = Append(Outer, "done")
     \/ Top = "seek" /\ stack' = Append(Outer, "on")

Move ==
  /\ command = <<>> /\ ~failed
  /\ UNCHANGED stack \/ Open \/ Close \/ NextBranch
  /\ UNCHANGED <<out, failed>>
Meet ==
  /\ command # <<>> /\ ~failed
  /\ out' = IF AllOn THEN Append(out, command[1]) ELSE out
  /\ UNCHANGED <<stack, failed>>
Fail ==
  /\ failed' = TRUE /\ stack' = <<>> /\ command' = <<>> /\ out' = <<>>
Start ==          \* of a pass, with no conditional open
  /\ stack = <<>> \/ failed
  /\ stack' = <<>> /\ command' = <<>> /\ out' = <<>> /\ failed' \in {FALSE, failed}

Next == Move \/ Meet \/ Fail \/ Start
Spec == Init /\ [][Next]_vars
=============================================================================
