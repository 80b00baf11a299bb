---- MODULE MCAround ----
(***************************************************************************)
(* What lies before and after the sessions, side by side as in MCParts: a  *)
(* behaviour is one part's.  Each part has its own variables, but for the  *)
(* logs of an agent, which are in v1 and v2.                               *)
(***************************************************************************)
EXTENDS ExecutionState, Registration, Compilation, Capture, TraceChecks, BrainstormingReview,
  Checks, WorkChecks, TLC

CONSTANTS p1, p2

VARIABLES part, v1, v2

others == <<part, regVars, compVars, vars, captureVars, traceVars, reviewVars, checksVars, workVars>>
all == <<others, v1, v2>>

----
(* Before: what is registered and what is compiled. *)

\* Credentials of one pool or two, with a key or two and with caps that fit and not.
Cred(p, ks, l, s) ==
  [pool |-> p, keys |-> ks, pooled |-> Len(ks) > 1, limit |-> l, spacing |-> s,
   harnesses |-> {"claude"}, os |-> Unset, model |-> "m"]
Registry(l, s, gp, gl) ==
  [x |-> Cred("P", <<"k1", "k2">>, l, s), y |-> Cred("P", <<"k1", "k2">>, 3, 1),
   g |-> Cred(gp, <<"k4">>, gl, 0)]
Registries ==
  {[Registry(l, 0, gp, gl) EXCEPT !.x.keys = ks, !.x.pooled = Len(ks) > 1] :
     ks \in {<<"k1">>, <<"k1", "k2">>}, l \in {1, 2, 4, Unset}, gp \in {"P", "G"}, gl \in {2, Unset}}
Usual == [Registry(4, 0, "G", 2) EXCEPT !.y.limit = 4]

\* Three arms, of which one may name what is not there, want another system, or
\* ask for an effort that the agent does not know; one may stand in a .yml file.
ArmOf(cr, os, sp, ef) ==
  [agent |-> "a", credential |-> cr, os |-> os, superpowers |-> sp,
   ref |-> IF sp = "none" THEN Unset ELSE "sha", effort |-> ef]
ArmsOf(cr, os, ef) ==
  [base |-> ArmOf("x", Unset, "none", Unset), treat |-> ArmOf(cr, os, "sha", ef),
   lone |-> ArmOf("y", Unset, "sha", Unset)]
Plain == ArmsOf("x", Unset, Unset)

Scenario(pw, ag, mt, as) ==
  [tier |-> "full", powers |-> pw, os |-> Unset, agents |-> ag, maxTime |-> mt, assessment |-> as]
Suite(pw, ag, as) == [s1 |-> Scenario(FALSE, Unset, Unset, 0), s2 |-> Scenario(pw, ag, 900, as)]

Comparison(arms, t, ss, cells) ==
  [arms |-> arms, tier |-> t, scenarios |-> ss, n |-> 1, cells |-> cells]
Uniform == [s \in {} |-> 0]
Pairs(t, ss, cells) ==
  <<Comparison(<<"base", "treat">>, t, ss, cells), Comparison(<<"lone">>, Unset, <<"s1">>, Uniform)>>
Selections ==
  {Pairs(t, ss, cells) : t \in {Unset, "full"}, cells \in {Uniform, "s1" :> 2},
                         ss \in {<<"s1", "s2">>, <<"s1", "s1">>, <<"s3">>}}

NoArms == [a \in {} |-> Unset]
Input(reg, arms, suite, comparisons, time) ==
  [os |-> "linux", cap |-> 2, declaredCap |-> 2, comparisons |-> comparisons, pairs |-> <<>>,
   reserve |-> 1, maxTime |-> time, arms |-> arms, ymlArms |-> NoArms, credentials |-> reg,
   grader |-> [credential |-> "g", model |-> "m"], scenarios |-> suite,
   agents |-> [a |-> [family |-> "claude", os |-> Unset, maxTime |-> Unset, none |-> TRUE,
                      ref |-> TRUE, efforts |-> {"high"}]]]
Template(arms) ==
  [Input(Usual, Plain, Suite(FALSE, Unset, 0), <<Comparison(arms, "full", <<>>, Uniform)>>, 1800)
     EXCEPT !.pairs = <<[baseline |-> "base", candidate |-> "treat"],
                        [baseline |-> "base", candidate |-> "lone"]>>]

AnInput == Input(Usual, Plain, Suite(FALSE, Unset, 0), Pairs("full", <<"s1", "s2">>, Uniform), 1800)
Declared ==
  {Input(r, Plain, Suite(FALSE, Unset, 0), ps, 1800) : r \in Registries, ps \in Selections}
  \cup {Input(Usual, ArmsOf(cr, os, ef), Suite(pw, ag, as), Pairs(t, <<"s1", "s2">>, Uniform), time) :
          cr \in {"x", "z"}, os \in {Unset, "windows"}, ef \in {Unset, "odd"}, pw \in BOOLEAN,
          ag \in {Unset, {}}, as \in {0, 300}, t \in {Unset, "full"}, time \in {1500, 1800, 2100}}
  \cup {Template(arms) : arms \in {<<"baseline", "candidate">>, <<"base", "treat">>}}
  \cup {[AnInput EXCEPT !.arms = [a \in DOMAIN Plain \ moved |-> Plain[a]],
                        !.ymlArms = "lone" :> ArmOf("y", Unset, "sha", ef)] :
          moved \in {{}, {"lone"}, {"base"}}, ef \in {Unset, "odd"}}

\* A registry of a later start: with other caps, without a credential, with one more.
LaterOnes ==
  Registries \cup
  {[n \in {"x", "g"} |-> Usual[n]]} \cup
  {Usual @@ ("w" :> Cred(pool, <<"k5">>, 3, 2)) : pool \in {"P", "W"}}

----
(* During: the fold, as time passes for one arm and one attempt. *)

PairOf == [s \in Samples |-> "p"]
OneCell == [b \in Blocks |-> "cell"]
PassOrCrash ==
  {[class |-> "evidence", cause |-> None, validity |-> "valid"],
   [class |-> "instrument", cause |-> "subject_crashed", validity |-> "valid"]}
ThreeInstants == 0 .. 2

----
(* Between: the logs of an agent and what is captured of them. *)

\* Every dialect, each with a log of up to four rows.
Logged == INSTANCE Transcript WITH
  MaxRows <- 4, dialect <- v1, log <- v2,
  Dialects <- {"claude", "codex", "openclaw", "goose", "goosetext", "miniswe", "acp", "openhands",
               "kimi", "gemini", "hermes", "cline", "pi", "cursor", "trae", "opencode", "copilot",
               "mimo", "qwen", "antigravity", "sweagent", "serf"}

\* Two logs: that of the agent and one of its own agents, or one from before, whose
\* times cross, are missing in part or altogether, or go back.
TwoLogs == {"l1", "l2"}
Stamps(one, two) == [l \in TwoLogs |-> IF l = "l1" THEN one ELSE two]
PlaceOf == [l \in TwoLogs |-> IF l = "l1" THEN 1 ELSE 2]
NoneOrOneBefore == {{}, {"l2"}}
AnySetting ==
  [normalizer |-> "claude", snapshot |-> {}, times |-> Stamps(<<1, 2>>, <<1, 2>>),
   cwd |-> [l \in TwoLogs |-> "launch"], started |-> TRUE]
Crossings ==
  {Stamps(<<1, 2>>, <<1, 2>>), Stamps(<<1, 3>>, <<2, 2>>), Stamps(<<0, 2>>, <<1, 0>>),
   Stamps(<<2, 1>>, <<0, 0>>)}

----
(* After: the checks of a scenario, asked of what the agent called and left. *)

Calls(t, a) == [tool |-> t, args |-> a]
Asks(v, t) == [verb |-> v, tool |-> t]
Then(v, t, b) == [verb |-> v, tool |-> t, then |-> b]
Counts(op) == [verb |-> "tool-count", tool |-> "Bash", op |-> op, n |-> 2]
Args(t, ms) == [verb |-> "tool-arg-match", tool |-> t, matchers |-> ms]
Matcher(keys, kind, expected) == [keys |-> keys, kind |-> kind, expected |-> expected]

CallsMade ==
  {Calls("Skill", [skill |-> s]) : s \in {"skill", "other"}}
  \cup {Calls("Read", [path |-> "skillfile"]), Calls("Read", [file_path |-> "code"])}
  \cup {Calls("Bash", [command |-> c]) : c \in {"skillfile", "search", "worktree"}}
  \cup {Calls("Bash", [cmd |-> "skillfile"]), Calls("EnterWorktree", [name |-> "w"])}
  \cup {Calls("Write", [file_path |-> "code", path |-> "docs"]), Calls("Write", [path |-> "docs"])}

ChecksAsked ==
  {Asks("", ""), Asks("tool-called", "Bash"), Asks("tool-not-called", "Write"),
   Then("tool-before", "Read", "Write"), Asks("skill-called", ""), Asks("skill-not-called", ""),
   Asks("skill-before-tool", "Bash"), Asks("skill-before-implementation-tool", "Write"),
   Asks("implementation-tool-not-called", "Write"), Asks("investigated", ""),
   Asks("worktree-created", ""), Counts("gte"), Counts("odd"),
   [verb |-> "tool-match-before-tool-match", tool |-> "Bash", re |-> {"search"},
    then |-> "Write", thenRe |-> {"code"}],
   Args("Write", {Matcher(<<"path", "file_path">>, "eq", "docs")}),
   Args("Bash", {Matcher(<<"command">>, "matches", {"", "search"})}),
   Args("Bash", {Matcher(<<>>, "eq", "")})}

\* Paths of up to three names, patterns with and without the deep star, and trees declared.
File(path, mode) == [path |-> path, mode |-> mode]
TreePaths == {<<"a">>, <<"a", "b">>, <<"a", "b", "c">>, <<"b">>, <<"bin">>, <<"bin", "t">>}
PatternsAsked ==
  {<<"a">>, <<"*">>, <<"a", "*">>, <<"*", "b">>, <<"**">>, <<"a", "**">>, <<"**", "b">>,
   <<"a", "**", "b">>, <<"a", "**", "a", "b">>, <<"**", "a", "b">>, <<"a", "**", "b", "c">>,
   <<"a", "b", "**", "b", "c">>, <<"a", "b", "**", "c">>, <<"a", "**", "*", "c">>, <<"*", "**", "c">>}
WaysToEnd == [how : {"code", "signal", "unstarted"}, code : {0, 1, 125, 126, 137}]
BaselinesDeclared ==
  {Absent, [files |-> <<File(<<"a", "b">>, "file")>>, roles |-> {<<"a", "b">>}],
   [files |-> <<File(<<"a">>, "exec"), File(<<"b">>, "file")>>, roles |-> {<<"b">>}]}

\* Phases of up to two lines of every form, and one of three that expands a variable.
SaidLine(verb, arg, dollar, negated, form) ==
  [verb |-> verb, arg |-> arg, dollar |-> dollar, negated |-> negated, form |-> form]
Literal == SaidLine("file", "x", FALSE, FALSE, "plain")
Variable == SaidLine("file", "v", TRUE, FALSE, "plain")
LinesOf ==
  {Literal, Variable, SaidLine("file", "y", FALSE, FALSE, "plain"),
   SaidLine("trace", "x", FALSE, TRUE, "plain"), SaidLine("file", "x", FALSE, FALSE, "guarded"),
   SaidLine("cd", "x", FALSE, FALSE, "foreign")}
Script(pre, post) == [p \in {"pre", "post"} |-> IF p = "pre" THEN pre ELSE post]
AScript == Script(<<>>, <<>>)
ScriptsOf ==
  {Script(<<>>, post) : post \in {<<>>} \cup {<<a>> : a \in LinesOf} \cup LinesOf \X LinesOf}
  \cup {Script(<<Literal>>, <<Variable, Literal, Variable>>)}

----
(* The behaviours. *)

Begin ==
  /\ \/ part \in {"registration", "compilation", "clock", "capture", "trace", "review", "checks",
                "work"} /\ v1 = None /\ v2 = None
     \/ part = "log" /\ Logged!Init
  /\ CompInit /\ (part # "compilation" => input = AnInput)
  /\ CaptureInit /\ (part # "capture" => setting = AnySetting)
  /\ TraceInit /\ (part # "trace" => availability = "available")
  /\ ChecksInit /\ (part # "checks" => script = AScript /\ manifest = Blank)
  /\ WorkInit /\ (part # "work" => commits = <<>>)
  /\ RegInit /\ Init /\ ReviewInit

Moves ==
  \/ /\ UNCHANGED <<part, v1, v2>>
     /\ \/ /\ part = "registration" /\ RegNext
           /\ UNCHANGED <<compVars, vars, captureVars, traceVars, reviewVars, checksVars, workVars>>
        \/ /\ part = "compilation" /\ CompNext
           /\ UNCHANGED <<regVars, vars, captureVars, traceVars, reviewVars, checksVars, workVars>>
        \/ /\ part = "clock" /\ Next
           /\ UNCHANGED <<regVars, compVars, captureVars, traceVars, reviewVars, checksVars, workVars>>
        \/ /\ part = "capture" /\ CaptureNext
           /\ UNCHANGED <<regVars, compVars, vars, traceVars, reviewVars, checksVars, workVars>>
        \/ /\ part = "trace" /\ TraceNext
           /\ UNCHANGED <<regVars, compVars, vars, captureVars, reviewVars, checksVars, workVars>>
        \/ /\ part = "review" /\ ReviewNext
           /\ UNCHANGED <<regVars, compVars, vars, captureVars, traceVars, checksVars, workVars>>
        \/ /\ part = "checks" /\ ChecksNext
           /\ UNCHANGED <<regVars, compVars, vars, captureVars, traceVars, reviewVars, workVars>>
        \/ /\ part = "work" /\ WorkNext
           /\ UNCHANGED <<regVars, compVars, vars, captureVars, traceVars, reviewVars, checksVars>>
  \/ part = "log" /\ Logged!Next /\ UNCHANGED others

Around == Begin /\ [][Moves]_all

----
(* The properties of the parts, each where it is its part's turn; those of the  *)
(* others are their modules' own.                                               *)

\* Whatever a log repeats, updates or splits, its trajectory is valid, has its calls and
\* results once and charges what was spent once (Transcript).
TranscriptsAreTrue == part = "log" => Logged!TranscriptsAreTrue
====
