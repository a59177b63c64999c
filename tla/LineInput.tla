------------------------------ MODULE LineInput ------------------------------
(***************************************************************************)
(* What the keyboard promises to read_keyboard (type 1) and getch (type 2):*)
(* one thread at a time is served; what is typed makes up its line, where  *)
(* backspace takes a character back; return, or the one character, ends it.*)
(***************************************************************************)
EXTENDS Integers, Sequences

CONSTANTS Thread, Nobody, Sizes

VARIABLES
    served,
    request,    \* type and size of the call that is served
    line,
    given       \* what a thread got and has not used yet

vars == <<served, request, line, given>>

NoRequest == [type |-> 0, size |-> 0]

Init == /\ served = Nobody /\ request = NoRequest /\ line = <<>>
        /\ given = [t \in Thread |-> <<>>]

\* The thread has used what it got.
Use(t) == /\ given' = [given EXCEPT ![t] = <<>>]
          /\ UNCHANGED <<served, request, line>>

Serve(t) == /\ served = Nobody /\ given[t] = <<>>
            /\ served' = t
            /\ request' \in {[type |-> 1, size |-> n] : n \in Sizes}
                            \cup {[type |-> 2, size |-> 1]}
            /\ UNCHANGED <<line, given>>

Extended(char) ==
    IF Len(line) < request.size THEN Append(line, char) ELSE line

Type == /\ request.type = 1
        /\ \E char \in {"letter", "LETTER"} : line' = Extended(char)
        /\ UNCHANGED <<served, request, given>>

TakeBack == /\ request.type = 1
            /\ line # <<>>
            /\ line' = SubSeq(line, 1, Len(line) - 1)
            /\ UNCHANGED <<served, request, given>>

End == /\ request.type # 0
       /\ \E char \in {"return"} \cup
                      (IF request.type = 2 THEN {"letter", "LETTER", "backspace"} ELSE {}) :
             given' = [given EXCEPT ![served] = Extended(char)]
       /\ served' = Nobody /\ request' = NoRequest /\ line' = <<>>

Next == Type \/ TakeBack \/ End \/ \E t \in Thread : Use(t) \/ Serve(t)

Spec == Init /\ [][Next]_vars
=============================================================================
