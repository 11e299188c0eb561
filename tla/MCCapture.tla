------------------------------ MODULE MCCapture ------------------------------
(* Captures and the evidence of a test run for TLC. *)
EXTENDS Capture

\* Requests are interchangeable: no definition names a particular one.
RequestSymmetry == Permutations(Requests)

\* Two classes of one method each, and requests that name them.
Tests == {<<"C", "testC">>, <<"D", "testD">>}
SmallRequests ==
    [tests : UNION {[1..n -> Tests] : n \in 0..2}, required : SUBSET Names]

\* Equal class names in two modules.
CasesWith(attachments) ==
    {[module |-> m, class |-> t[1], method |-> t[2], passed |-> p, attachments |-> a] :
        m \in Modules, t \in Tests, p \in BOOLEAN, a \in attachments}

UpTo(n, S) == UNION {[1..k -> S] : k \in 0..n}

\* Many cases without attachments, or two with an attachment each, or one
\* with two.
SmallReports ==
    UpTo(3, CasesWith({<<>>})) \cup UpTo(2, CasesWith(UpTo(1, Attachment)))
        \cup UpTo(1, CasesWith(UpTo(2, Attachment)))

SmallPictures == SUBSET Paths

=============================================================================
