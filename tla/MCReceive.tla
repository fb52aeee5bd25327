------------------------------ MODULE MCReceive ------------------------------
(* Messages for TLC: lengths on both sides of every limit, cuts anywhere. *)
EXTENDS Receive

CONSTANTS line, a, b, p, q

Header(key, pieces, indented) == [key |-> key, pieces |-> pieces, indented |-> indented]
Message(headers, body) == [line |-> line, headers |-> headers, body |-> body]

\* Without body; a body that looks like the end of headers; a header of two
\* lines; the same not indented.
MCHttpMessages ==
    {Message(<<>>, <<>>),
     Message(<<Header("a", <<p>>, TRUE)>>, <<CR, LF, CR, LF>>),
     Message(<<Header("a", <<p, q>>, TRUE), Header("b", <<q>>, TRUE)>>, <<a, b>>),
     Message(<<Header("a", <<p, q>>, FALSE)>>, <<a>>)}

Payload(n) == [i \in 1 .. n |-> (i + i \div 4) % Radix]
Frame(opcode, n, final) == [final |-> final, opcode |-> opcode, payload |-> Payload(n)]
Key == <<1, 3, 0, 2>>

\* Short up to 2, medium up to 15.  Of the frames with a long length those of 28
\* and 30 bytes are within the limit and the one of 31 bytes is not.
MCFrames ==
    {[frame |-> Frame("Text", n, TRUE), key |-> k] : n \in {2, 3, 16}, k \in {<<>>, Key}} \cup
    {[frame |-> Frame("Ping", 0, TRUE), key |-> k] : k \in {<<>>, Key}} \cup
    {[frame |-> Frame("Continue", 15, FALSE), key |-> <<>>],
     [frame |-> Frame("Binary", 18, FALSE), key |-> <<>>],
     [frame |-> Frame("Binary", 17, TRUE), key |-> Key]}
==============================================================================
