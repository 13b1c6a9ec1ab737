---------------------------- MODULE ManagedBlock ----------------------------
(***************************************************************************)
(* The edit the node agent makes to files it shares with other programs,   *)
(* /etc/hosts and the distribution's CA bundle.  A file is its sequence of *)
(* lines; a line is a kind and an owner: the marker lines and the body of  *)
(* a reflector's block, or a line of the host itself.                      *)
(***************************************************************************)
EXTENDS Naturals, Sequences

Begin(r) == <<"begin", r>>

End(r) == <<"end", r>>

(* One line stands for the body: the hostnames of the reflector mapped to  *)
(* its Service IP, or its CA certificates.                                 *)
Body(r) == <<"body", r>>

(* The first marker of r after line i, or the end of the file.             *)
NextMarker(lines, i, r) ==
    CHOOSE j \in i + 1 .. Len(lines) + 1 :
        /\ j = Len(lines) + 1 \/ lines[j] \in {Begin(r), End(r)}
        /\ \A k \in i + 1 .. j - 1 : lines[k] \notin {Begin(r), End(r)}

(* Is there an END for the BEGIN at line i before the next BEGIN?          *)
Closed(lines, i, r) ==
    LET j == NextMarker(lines, i, r)
    IN  j <= Len(lines) /\ lines[j] = End(r)

(* A loop over lines 1 to n that at line i writes out[i] and goes on at    *)
(* line next[i]: what it writes from each line on, and from the first.     *)
LoopFrom(n, out, next) ==
    LET from[i \in 1 .. n + 1] ==
            IF i = n + 1 THEN <<>> ELSE out[i] \o from[next[i]]
    IN  from

Loop(n, out, next) == LoopFrom(n, out, next)[1]

(* The loop of withManagedBlock: complete blocks of r go, and of a BEGIN   *)
(* without an END only the marker.                                         *)
Written(lines, r) ==
    [i \in 1 .. Len(lines) |->
        IF lines[i] = Begin(r) THEN <<>> ELSE <<lines[i]>>]

(* Mutant: an unmatched BEGIN takes everything after it along.             *)
FollowingToEnd(lines, r) ==
    [i \in 1 .. Len(lines) |->
        IF lines[i] # Begin(r) THEN i + 1
        ELSE IF Closed(lines, i, r) THEN NextMarker(lines, i, r) + 1
        ELSE Len(lines) + 1]

Following(lines, r) ==
    [i \in 1 .. Len(lines) |->
        IF lines[i] = Begin(r) /\ Closed(lines, i, r)
        THEN NextMarker(lines, i, r) + 1 ELSE i + 1]

Kept(lines, r) == Loop(Len(lines), Written(lines, r), Following(lines, r))

Begins(lines, r) == {i \in 1 .. Len(lines) : lines[i] = Begin(r)}

(* insertAt: where the first BEGIN was, or the end of what is kept.        *)
InsertAt(lines, r) ==
    LET begins == Begins(lines, r)
    IN  IF begins = {} THEN Len(lines)
        ELSE (CHOOSE i \in begins : \A k \in begins : i <= k) - 1

(* withManagedBlock, and with it withHostsBlock and withCABlock: the block *)
(* of r set, or removed when there is nothing to put in it.                *)
WithManagedBlock(lines, r, present) ==
    LET kept == Kept(lines, r)
        at == InsertAt(lines, r)
        block == IF present THEN <<Begin(r), Body(r), End(r)>> ELSE <<>>
    IN  SubSeq(kept, 1, at) \o block \o SubSeq(kept, at + 1, Len(kept))

-----------------------------------------------------------------------------
(* What the edit is meant to do, without the loop: line k is the           *)
(* reflector's own if it is a BEGIN, or lies in a block that is closed     *)
(* before the next BEGIN.                                                  *)
Own(lines, r) ==
    {k \in 1 .. Len(lines) :
        \/ lines[k] = Begin(r)
        \/ \E i \in 1 .. k - 1, j \in k .. Len(lines) :
              /\ lines[i] = Begin(r)
              /\ lines[j] = End(r)
              /\ \A m \in i + 1 .. j - 1 : lines[m] \notin {Begin(r), End(r)}}

(* The lines with a number in I, in their order.                          *)
Select(lines, I) ==
    Loop(Len(lines),
         [i \in 1 .. Len(lines) |-> IF i \in I THEN <<lines[i]>> ELSE <<>>],
         [i \in 1 .. Len(lines) |-> i + 1])

(* The lines of others.                                                    *)
Others(lines, r) == Select(lines, (1 .. Len(lines)) \ Own(lines, r))

(* The complete blocks of r in a file.                                     *)
Blocks(lines, r) == {i \in Begins(lines, r) : Closed(lines, i, r)}
=============================================================================
