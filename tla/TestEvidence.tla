----------------------------- MODULE TestEvidence -----------------------------
(***************************************************************************)
(* How run-tests judges what the test runner reports (xctest.go): a pure   *)
(* function of the request, of the finished test cases in the order of     *)
(* their suites and of the files that the run left.                        *)
(*                                                                         *)
(* A case has the module, class and method that the runner names, and its  *)
(* attachments have a type, a name and the path of a file.  Paths are      *)
(* told apart only by whether a complete, bounded PNG is there, in the     *)
(* directory of the run.  No path is another one with the suffix that a    *)
(* rename adds: the listener invents them.                                 *)
(***************************************************************************)
EXTENDS SequencesExt

CONSTANTS
    Modules, Classes, Methods,    \* the names that cases consist of
    Names, Paths,                 \* of attachments
    TestRequests,    \* [tests, required]: the selected tests, the names of
                     \* the screenshots that must be there
    Reports,         \* sequences of cases
    Pictures         \* sets of paths at which there is a PNG

Attachment == [name : Names, path : Paths, png : BOOLEAN]

Case == [module : Modules, class : Classes, method : Methods,
         passed : BOOLEAN, attachments : Seq(Attachment)]

ASSUME EvidenceAssumption ==
    /\ \A request \in TestRequests :
           /\ request.tests \in Seq(Classes \X Methods)
           /\ request.required \subseteq Names
    /\ \A cases \in Reports : cases \in Seq(Case)
    /\ \A files \in Pictures : files \subseteq Paths

\* A selector names a class and a method, without the module: what follows
\* the last dot of the class name, and the method without its parentheses.
Selector(case) == <<case.class, case.method>>

\* validateTestRun
ValidTestRun(request) == request.tests # <<>> /\ IsInjective(request.tests)

-----------------------------------------------------------------------------
(* verifyTestEvidence: a state that each case, and each attachment of a case, *)
(* changes, until one of them is an error.                                    *)

Start(files) ==
    [error |-> FALSE, finished |-> {}, names |-> {}, passed |-> 0,
     screenshots |-> 0, files |-> files]

\* Only pictures count.  Each is renamed, so that it is not found again.
Attach(s, a) ==
    IF s.error \/ ~a.png THEN s
    ELSE IF a.path \in s.files
         THEN [s EXCEPT !.files = @ \ {a.path}, !.names = @ \cup {a.name},
                        !.screenshots = @ + 1]
         ELSE [s EXCEPT !.error = TRUE]

\* The loop over the attachments of a case
AttachAll(s, attachments) ==
    LET run[j \in 0..Len(attachments)] ==
            IF j = 0 THEN s ELSE Attach(run[j - 1], attachments[j])
    IN  run[Len(attachments)]

FinishUnless(s, case, refused) ==
    IF s.error \/ refused THEN [s EXCEPT !.error = TRUE]
    ELSE AttachAll([s EXCEPT !.finished = @ \cup {Selector(case)}, !.passed = @ + 1],
                   case.attachments)

\* Mutant: a test that passed may be reported again.
FinishAgain(s, case) == FinishUnless(s, case, ~case.passed)

\* It must have passed, and must not have finished before.
FinishCase(s, case) ==
    FinishUnless(s, case, ~case.passed \/ Selector(case) \in s.finished)

\* The loop over the cases
FinishAll(cases, files) ==
    LET run[i \in 0..Len(cases)] ==
            IF i = 0 THEN Start(files) ELSE FinishCase(run[i - 1], cases[i])
    IN  run[Len(cases)]

\* The verdict and the counts that the result states.
Verdict(request, cases, files) ==
    LET s == FinishAll(cases, files)
        tests == ToSet(request.tests)
    IN  [ok |-> /\ ValidTestRun(request) /\ ~s.error
                /\ Cardinality(s.finished) = Len(request.tests)
                /\ tests \subseteq s.finished
                /\ request.required \subseteq s.names,
         passed |-> s.passed, screenshots |-> s.screenshots]

-----------------------------------------------------------------------------
(* What the evidence has to be, without a loop *)

\* The attachments that are pictures, and the places <<case, attachment>> at
\* which a report has one.
Pngs(attachments) == {j \in DOMAIN attachments : attachments[j].png}

Screenshots(cases) ==
    UNION {{i} \X Pngs(cases[i].attachments) : i \in DOMAIN cases}

At(cases, place) == cases[place[1]].attachments[place[2]]

\* Each selected test was reported once and passed, whatever module it is of,
\* no other test was, and every screenshot is a file of its own.
Genuine(request, cases, files) ==
    /\ request.tests # <<>> /\ IsInjective(request.tests)
    /\ \A i \in DOMAIN cases :
           cases[i].passed /\ Selector(cases[i]) \in ToSet(request.tests)
    /\ \A t \in ToSet(request.tests) :
           \E i \in DOMAIN cases :
               \A j \in DOMAIN cases : Selector(cases[j]) = t <=> j = i
    /\ \A p, q \in Screenshots(cases) :
           At(cases, p).path = At(cases, q).path => p = q
    /\ \A p \in Screenshots(cases) : At(cases, p).path \in files
    /\ request.required \subseteq {At(cases, p).name : p \in Screenshots(cases)}

\* Whether the verdict on it is right: a success exactly if it is genuine, with
\* the counts of the selected tests and of the screenshots.
Judged(request, cases, files) ==
    LET verdict == Verdict(request, cases, files)
    IN  /\ verdict.ok <=> Genuine(request, cases, files)
        /\ verdict.ok =>
               /\ verdict.passed = Len(request.tests)
               /\ verdict.screenshots = Cardinality(Screenshots(cases))

AllJudged ==
    \A request \in TestRequests, cases \in Reports, files \in Pictures :
        Judged(request, cases, files)

=============================================================================
