---- MODULE TraceChecks ----
(***************************************************************************)
(* The checks of a scenario that are asked of the agent's tool calls:      *)
(* check/transcript-dispatch.ts and check/verbs.ts, with their negation by *)
(* check/dispatch.ts.  The agent calls, and whatever it has called so far  *)
(* may be what is checked.                                                 *)
(***************************************************************************)
EXTENDS Integers, Sequences, FiniteSets

CONSTANTS
  Made,       \* the calls an agent may make: [tool, args]
  Questions,  \* the checks a scenario may ask: [verb, tool, ...]
  MaxCalls

VARIABLES calls, availability

traceVars == <<calls, availability>>

\* The first of some positions in a sequence, 0 if there is none.
First(positions) ==
  IF positions = {} THEN 0 ELSE CHOOSE i \in positions : \A j \in positions : i <= j

\* A value of an argument stands for all that the patterns of the checks cannot tell apart.
Arg(c, key) == IF key \in DOMAIN c.args THEN c.args[key] ELSE ""

\* firstPresentValue: of keys that agents name differently, the first that is there.
FirstPresent(c, keys) ==
  LET i == First({n \in DOMAIN keys : keys[n] \in DOMAIN c.args})
  IN  IF i = 0 THEN "" ELSE c.args[keys[i]]

IsSkillInvocation(c) ==
  \/ c.tool = "Skill" /\ Arg(c, "skill") = "skill"
  \/ c.tool = "Bash" /\ FirstPresent(c, <<"command", "cmd">>) = "skillfile"
  \/ c.tool = "Read" /\ FirstPresent(c, <<"file_path", "path">>) = "skillfile"

\* A path in the workdir, or relative, that is not of git, of dependencies or of the skills' notes.
IsImplementationPath(c) == FirstPresent(c, <<"file_path", "path">>) = "code"

MatchText(c) == IF "command" \in DOMAIN c.args THEN {c.args["command"]} 
                ELSE {c.args[k] : k \in DOMAIN c.args}

MatcherSatisfied(c, m) ==
  LET value == FirstPresent(c, m.keys)
  IN  IF m.kind = "eq" THEN value = m.expected ELSE value \in m.expected

Uses(c, q) == c.tool = q.tool
Writes(c, q) == c.tool = q.tool /\ IsImplementationPath(c)
MatchesA(c, q) == c.tool = q.tool /\ MatchText(c) \cap q.re # {}
MatchesB(c, q) == c.tool = q.then /\ MatchText(c) \cap q.thenRe # {}
MatchesAll(c, q) == c.tool = q.tool /\ \A m \in q.matchers : MatcherSatisfied(c, m)
Investigates(c) ==
  \/ c.tool \in {"Read", "Grep"}
  \/ c.tool = "Bash" /\ Arg(c, "command") = "search"
Separates(c) ==
  \/ c.tool = "EnterWorktree"
  \/ c.tool = "Bash" /\ Arg(c, "command") = "worktree"

\* Where such calls are, how many there are, and which is the first.
Where(Is(_)) == {i \in DOMAIN calls : Is(calls[i])}
Count(Is(_)) == Cardinality(Where(Is))
FirstOf(Is(_)) == First(Where(Is))

\* The first of these before the first of those; those need not be there where it says so.
IsBefore(first, second) == first # 0 /\ second # 0 /\ first < second
BeforeAny(first, second) == second = 0 \/ IsBefore(first, second)

Compares(op, count, n) ==
  \/ op \in {"eq", "gte", "lte"} /\ count = n
  \/ op \in {"ne", "gt", "gte"} /\ count > n
  \/ op \in {"ne", "lt", "lte"} /\ count < n
Operators == {"eq", "ne", "gt", "gte", "lt", "lte"}

\* What a check finds in the calls.
Finds(q) ==
  \/ q.verb = "tool-called" /\ Count(LAMBDA c : Uses(c, q)) > 0
  \/ q.verb = "tool-not-called" /\ Count(LAMBDA c : Uses(c, q)) = 0
  \/ q.verb = "tool-count" /\ Compares(q.op, Count(LAMBDA c : Uses(c, q)), q.n)
  \/ /\ q.verb = "tool-before"
     /\ IsBefore(FirstOf(LAMBDA c : Uses(c, q)), FirstOf(LAMBDA c : c.tool = q.then))
  \/ q.verb = "skill-called" /\ Count(IsSkillInvocation) > 0
  \/ q.verb = "skill-not-called" /\ Count(IsSkillInvocation) = 0
  \/ /\ q.verb = "skill-before-tool"
     /\ BeforeAny(FirstOf(IsSkillInvocation), FirstOf(LAMBDA c : Uses(c, q)))
  \/ /\ q.verb = "skill-before-implementation-tool"
     /\ BeforeAny(FirstOf(IsSkillInvocation), FirstOf(LAMBDA c : Writes(c, q)))
  \/ q.verb = "implementation-tool-not-called" /\ Count(LAMBDA c : Writes(c, q)) = 0
  \/ q.verb = "investigated" /\ Count(Investigates) > 0
  \/ q.verb = "worktree-created" /\ Count(Separates) > 0
  \/ /\ q.verb = "tool-match-before-tool-match"
     /\ BeforeAny(FirstOf(LAMBDA c : MatchesA(c, q)), FirstOf(LAMBDA c : MatchesB(c, q)))
  \/ q.verb = "tool-arg-match" /\ Count(LAMBDA c : MatchesAll(c, q)) > 0

\* What is asked in a way that no trace could answer.
Malformed(q) ==
  \/ q.verb = ""
  \/ q.verb = "tool-count" /\ q.op \notin Operators
  \/ q.verb = "tool-arg-match"
     /\ (q.matchers = {} \/ \E m \in q.matchers : m.keys = <<>>)

Passed(b) == IF b THEN "pass" ELSE "fail"

\* Mutant of Outcome: a check of calls that were not captured finds none.
OutcomeOfNothing(q) ==
  IF Malformed(q) THEN "broken" ELSE Passed(Finds(q))

\* transcriptOutcome: without evidence there is neither a pass nor a fail.
Outcome(q) ==
  IF Malformed(q) \/ availability # "available" THEN "broken" ELSE Passed(Finds(q))

\* negate: what could not be found out is not turned round.
Negated(outcome) ==
  IF outcome = "pass" THEN "fail" ELSE IF outcome = "fail" THEN "pass" ELSE "refused"

----
TraceInit ==
  /\ calls = <<>>
  /\ availability \in {"available", "unavailable", "errored"}

TraceNext ==
  /\ Len(calls) < MaxCalls
  /\ \E c \in Made : calls' = Append(calls, c)
  /\ UNCHANGED availability

TraceSpec == TraceInit /\ [][TraceNext]_traceVars

----
(* What a scenario's author means by a check. *)

Some(Is(_)) == \E i \in DOMAIN calls : Is(calls[i])
\* Whenever one of these is called, one of those was called before.
Preceded(Is(_), By(_)) == \A i \in DOMAIN calls : Is(calls[i]) => \E j \in 1 .. i - 1 : By(calls[j])

Meant(q) ==
  \/ q.verb = "tool-called" /\ Some(LAMBDA c : Uses(c, q))
  \/ q.verb = "tool-not-called" /\ ~Some(LAMBDA c : Uses(c, q))
  \/ /\ q.verb = "tool-before"
     /\ Some(LAMBDA c : c.tool = q.then)
     /\ Preceded(LAMBDA c : c.tool = q.then, LAMBDA c : Uses(c, q))
  \/ q.verb = "skill-called" /\ Some(IsSkillInvocation)
  \/ q.verb = "skill-not-called" /\ ~Some(IsSkillInvocation)
  \/ q.verb = "skill-before-tool" /\ Preceded(LAMBDA c : Uses(c, q), IsSkillInvocation)
  \/ /\ q.verb = "skill-before-implementation-tool"
     /\ Preceded(LAMBDA c : Writes(c, q), IsSkillInvocation)
  \/ q.verb = "implementation-tool-not-called" /\ ~Some(LAMBDA c : Writes(c, q))
  \/ q.verb = "investigated" /\ Some(Investigates)
  \/ q.verb = "worktree-created" /\ Some(Separates)
  \/ /\ q.verb = "tool-match-before-tool-match"
     /\ Preceded(LAMBDA c : MatchesB(c, q), LAMBDA c : MatchesA(c, q))
  \/ q.verb = "tool-arg-match" /\ Some(LAMBDA c : MatchesAll(c, q))
  \/ q.verb = "tool-count" /\ Finds(q)

\* A check passes, or fails, exactly when what it is meant to say holds, or not, of a
\* trace that was captured whole; and neither the check nor its negation passes when
\* there is no such trace: "not called" is never concluded from nothing
\* (transcript-dispatch.ts 130, dispatch.ts 208).
TraceChecksAreTrue ==
  \A q \in Questions :
    /\ Outcome(q) = "pass" <=> ~Malformed(q) /\ availability = "available" /\ Meant(q)
    /\ Negated(Outcome(q)) = "pass" <=> ~Malformed(q) /\ availability = "available" /\ ~Meant(q)
====
