---- MODULE Transcript ----
(***************************************************************************)
(* An agent writes its log row by row, in the dialect of its kind, and the *)
(* harness may read it after any row (ATIF_NORMALIZERS of                  *)
(* capture/index.ts).  What an agent can write is taken from what the      *)
(* normalizers and their tests expect of it.                               *)
(***************************************************************************)
EXTENDS Normalizers

CONSTANTS Dialects, MaxRows

VARIABLES dialect, log   \* log: the positions in Rows of what was written

Says(kind) == Row(kind, None, <<>>, <<>>, None, TRUE)
Asks(kind, key, calls, cost) == Row(kind, key, calls, <<>>, cost, FALSE)
Gives(kind, results) == Row(kind, None, <<>>, results, None, FALSE)
Costs(kind, cost) == Row(kind, None, <<>>, <<>>, cost, FALSE)
Plain == <<Says("user"), Asks("assistant", None, <<"c1", "c2">>, 1),
           Asks("assistant", None, <<"c3">>, 2), Row("assistant", None, <<>>, <<>>, 4, TRUE),
           Gives("result", <<"c1">>), Gives("result", <<"c2">>), Gives("result", <<"c3">>)>>
Tools == [i \in DOMAIN Plain |-> IF Plain[i].kind = "result" THEN [Plain[i] EXCEPT !.kind = "tool"]
                                 ELSE Plain[i]]

\* What each agent may write.
Rows ==
  [claude |-> <<Row("assistant", "m1", <<>>, <<>>, 1, TRUE) @@ [uuid |-> "u1"],
                Asks("assistant", "m1", <<"c1">>, 2) @@ [uuid |-> "u2"],
                Asks("assistant", "m2", <<"c2">>, 4) @@ [uuid |-> "u3"],
                Gives("user", <<"c1">>) @@ [uuid |-> "u4"],
                Row("user", None, <<>>, <<"c2">>, None, TRUE) @@ [uuid |-> "u5"],
                Asks("use", None, <<"c3">>, None) @@ [uuid |-> "u6"]>>,
   codex |-> <<Says("model"), Row("message", "assistant", <<>>, <<>>, None, TRUE),
               Asks("call", None, <<"c1">>, None), Asks("call", None, <<"c2", "c3">>, None),
               Gives("output", <<"c1">>), Gives("output", <<"c2">>),
               Row("usage", 1, <<>>, <<>>, 1, FALSE), Row("usage", 3, <<>>, <<>>, 2, FALSE)>>,
   openclaw |-> Plain, hermes |-> Tools, miniswe |-> <<Says("system")>> \o Tools,
   qwen |-> Plain, pi |-> Plain,
   goose |-> <<Row("message", "m0", <<>>, <<>>, None, TRUE) @@ [role |-> "user"],
               Row("error", None, <<>>, <<>>, None, TRUE) @@ [role |-> None],
               Row("message", "m1", <<"c1">>, <<>>, None, TRUE) @@ [role |-> "assistant"],
               Row("message", "m1", <<"c2">>, <<>>, None, FALSE) @@ [role |-> "assistant"],
               Row("message", "m2", <<>>, <<"c1", "c2">>, None, FALSE) @@ [role |-> "user"]>>,
   goosetext |-> <<Says("tool"), Says("gap"), Says("words")>>,
   acp |-> [i \in 1 .. 6 |->
              <<Says("chunk"), Asks("permission", None, <<"c1">>, None), Asks("call", None, <<"c1">>, None),
                Row("call", None, <<"c1">>, <<"c1">>, None, TRUE), Row("call", None, <<"c2">>, <<"c2">>, None, TRUE),
                Costs("usage", 1)>>[i] @@ [completed |-> i \in {4, 5}]],
   openhands |-> <<Row("user", None, <<>>, <<>>, None, TRUE), Row("agent", None, <<"c1">>, <<>>, 1, FALSE),
                   Row("agent", None, <<"c1">>, <<"c1">>, 1, FALSE), Row("agent", None, <<"c2">>, <<"c2">>, 3, FALSE),
                   Row("agent", None, <<>>, <<>>, 4, TRUE)>>,
   kimi |-> <<Row("part", "s1", <<>>, <<>>, None, TRUE), Row("part", "s2", <<>>, <<>>, None, FALSE),
              Asks("call", "s1", <<"c1">>, None), Asks("call", "s1", <<"c2">>, None),
              Gives("result", <<"c1">>), Costs("turn", 1), Costs("turn", 2), Costs("session", 3)>>,
   gemini |-> [i \in 1 .. 5 |->
                 <<Row("gemini", "m1", <<>>, <<>>, 1, TRUE), Row("gemini", "m1", <<"c1", "c2">>, <<"c1">>, 2, FALSE),
                   Row("gemini", "m2", <<"c3">>, <<"c3">>, 4, FALSE), Row("user", "m3", <<>>, <<>>, None, TRUE),
                   Row("rewind", "m2", <<>>, <<>>, None, FALSE)>>[i]],
   cline |-> <<Says("user"), Asks("assistant", None, <<"c1", "c2">>, 1), Asks("assistant", None, <<"c3">>, 2),
               Gives("user", <<"c1", "c2">>), Row("user", None, <<>>, <<"c3">>, None, TRUE)>>,
   cursor |-> <<Says("user"), Row("assistant", "m1", <<>>, <<>>, None, TRUE),
                Row("call", "m1", <<"c1">>, <<"c1">>, None, FALSE), Row("call", "m2", <<"c2">>, <<"c2">>, None, FALSE),
                Row("call", None, <<"c3">>, <<"c3">>, None, FALSE), Costs("result", 1)>>,
   trae |-> <<Asks("interaction", None, <<"c1", "c2">>, 1), Asks("interaction", None, <<"c3">>, 2),
              Gives("step", <<"c1", "c2">>), Gives("step", <<"c3">>), Says("error")>>,
   opencode |-> <<Says("assistant"), Row("assistant", None, <<"c1", "c2">>, <<"c2">>, 1, TRUE),
                  Row("assistant", None, <<"c3">>, <<"c3">>, 2, FALSE), Row("assistant", None, <<>>, <<>>, 4, TRUE)>>,
   copilot |-> <<Asks("assistant", None, <<"c1", "c2">>, None), Asks("assistant", None, <<"c3">>, None),
                 Gives("complete", <<"c2">>), Gives("complete", <<"c3">>), Costs("shutdown", 2)>>,
   mimo |-> <<Says("start"), Row("part", None, <<"c1">>, <<"c1">>, None, FALSE), Says("part"),
              Row("part", None, <<"c2">>, <<>>, None, FALSE), Costs("finish", 1)>>,
   antigravity |-> <<Says("user"), Says("planner"), Asks("planner", None, <<"c1", "c2">>, None),
                     Asks("other", None, <<"c3">>, None)>>,
   sweagent |-> <<Says("prompted"), Says("entry"), Row("entry", None, <<"c1">>, <<"c1">>, None, TRUE),
                  Row("entry", None, <<"c2">>, <<>>, None, TRUE)>>,
   serf |-> <<Says("user"), Row("agent", None, <<"c1", "c2">>, <<"c2">>, 1, FALSE),
              Row("agent", None, <<"c3">>, <<"c3">>, 2, TRUE)>>]

\* ATIF_NORMALIZERS.
Normalize(d, rows) ==
  CASE d = "claude" -> Claude(rows)       [] d = "codex" -> Codex(rows)
    [] d = "openclaw" -> Openclaw(rows)   [] d = "goose" -> GooseStream(rows)
    [] d = "goosetext" -> GooseText(rows) [] d = "miniswe" -> MiniSwe(rows)
    [] d = "acp" -> Acp(rows)             [] d = "openhands" -> Openhands(rows)
    [] d = "kimi" -> Kimi(rows)           [] d = "gemini" -> Gemini(rows)
    [] d = "hermes" -> Hermes(rows)       [] d = "cline" -> Cline(rows)
    [] d = "pi" -> Pi(rows)               [] d = "cursor" -> Cursor(rows)
    [] d = "trae" -> Trae(rows)           [] d = "opencode" -> Opencode(rows)
    [] d = "copilot" -> Copilot(rows)     [] d = "mimo" -> Mimo(rows)
    [] d = "qwen" -> Qwen(rows)           [] d = "antigravity" -> Antigravity(rows)
    [] d = "sweagent" -> SweAgent(rows)   [] d = "serf" -> Serf(rows)

Written == [i \in DOMAIN log |-> Rows[dialect][log[i]]]

\* A row that can be written again: after a compaction, as a repeated count, as an
\* update of a message, or because it names nothing.
Again(r) ==
  \/ dialect \in {"claude", "codex"} /\ \E i \in DOMAIN log : Written[i] = r
  \/ dialect = "openhands" /\ log # <<>> /\ r.results # <<>>
     /\ Last(Written).calls = r.calls /\ Last(Written).results = <<>>
  \/ dialect \in {"gemini", "acp"}

\* The results of these come right after the message that asked.
AtOnce(r) ==
  dialect \in {"openclaw", "hermes", "goose"} /\ r.results # <<>> =>
    LET rest == SelectSeq(Written, LAMBDA x : x.results = <<>>)
        since == SelectSeq([i \in DOMAIN log |-> i],
                           LAMBDA i : Written[i].results = <<>>)
    IN  /\ rest # <<>>
        /\ Range(r.results) \subseteq
             UNION {Range(Written[i].calls) : i \in {j \in DOMAIN log :
                      j = Last(since) \/ (dialect = "goose" /\ Written[j].key = Written[Last(since)].key)}}

\* What is counted only grows.
Grows(r) ==
  dialect \in {"claude", "openhands", "codex", "gemini"} /\ r.cost # None =>
    \/ \E i \in DOMAIN log : Written[i] = r /\ dialect = "claude"
    \/ \A i \in DOMAIN log :
         Written[i].cost # None /\ (dialect \in {"claude", "gemini"} => Written[i].key = r.key)
           => Written[i].cost <= r.cost

\* The parts of a message come one after the other.
Whole(r) ==
  (dialect = "goose" /\ \E i \in DOMAIN log : Written[i].key = r.key) => Last(Written).key = r.key

\* How a log begins.
Begins(r) ==
  CASE dialect \in {"openclaw", "cline"} -> r.kind = "user"
    [] dialect = "miniswe" -> r.kind = IF log = <<>> THEN "system" ELSE "user"
    [] dialect = "mimo" -> r.kind = "start"
    [] OTHER -> TRUE

MayWrite(r) ==
  /\ Len(log) < (IF dialect = "miniswe" THEN 2 ELSE 1) => Begins(r)
  /\ Range(r.results) \subseteq Range(CallsOf(Written)) \cup Range(r.calls)
  /\ Again(r) \/ /\ Range(r.calls) \cap Range(CallsOf(Written)) = {}
                 /\ Range(r.results) \cap Range(ResultsOf(Written)) = {}
  /\ AtOnce(r) /\ Whole(r) /\ Grows(r)
  /\ (dialect = "miniswe" /\ Len(log) >= 2) => r.kind \notin {"user", "system"}
  /\ (dialect = "sweagent" /\ log # <<>>) => r.kind # "prompted"

Init == dialect \in Dialects /\ log = <<>>

Write(i) ==
  /\ Len(log) < MaxRows /\ MayWrite(Rows[dialect][i])
  /\ log' = Append(log, i)
  /\ UNCHANGED dialect

Next == \E i \in DOMAIN Rows[dialect] : Write(i)

----
\* What was asked for and spent, told from the log alone.
Costly == SelectSeq(Written, LAMBDA r : r.cost # None)
SumOf(pairs) == FoldSet(LAMBDA p, n : n + p[2], 0, pairs)
MaxOf(S) == IF S = {} THEN 0 ELSE Max(S)

Spent ==
  CASE dialect \in {"claude", "gemini"} ->
         SumOf({<<k, Max({Costly[i].cost : i \in {j \in DOMAIN Costly : Costly[j].key = k}})>> :
                k \in {Costly[i].key : i \in DOMAIN Costly}})
    [] dialect = "codex" ->
         IF \E i \in DOMAIN log : Written[i].kind = "model"
         THEN SumOf({<<Costly[i].key, Costly[i].cost>> : i \in DOMAIN Costly}) ELSE 0
    [] dialect = "openhands" -> MaxOf({Costly[i].cost : i \in DOMAIN Costly})
    [] dialect = "kimi" -> CostOf(SelectSeq(Written, LAMBDA r : r.kind = "turn"))
    [] dialect = "copilot" -> IF Costly = <<>> THEN 0 ELSE Last(Costly).cost
    [] OTHER -> CostOf(Written)

Asked == Firsts(CallsOf(Written))
Answered == Range(ResultsOf(Written))

\* Invariant: read after any row, no log of any agent is thrown away; the trajectory
\* has each call of the log once and in order, each result in the step of its call, and
\* charges what was spent once, whatever the log repeats, updates or splits.  The
\* exceptions: the agent client protocol may tell a call in two steps, a turn of MiMo
\* counts when it is finished, what Gemini takes back is gone, Antigravity's log has no
\* results and no cost, and usage with nothing to charge it to is dropped by two.
TranscriptsAreTrue ==
  LET steps == Normalize(dialect, Written)
      turnless == dialect \in {"acp", "mimo", "goosetext"}
                  \/ (dialect = "gemini" /\ \E i \in DOMAIN log : Written[i].kind = "rewind")
      uncharged == turnless \/ dialect = "cursor"
  IN  /\ log # <<>> => Valid(steps)
      /\ ~turnless => IF dialect \in {"claude", "gemini", "cursor"}
                      THEN IsInjective(CallsOf(steps)) /\ ToSet(CallsOf(steps)) = ToSet(Asked)
                      ELSE CallsOf(steps) = Asked
      /\ ~turnless => Range(ResultsOf(steps)) = IF dialect = "antigravity" THEN {} ELSE Answered
      /\ \A i \in DOMAIN steps : IsInjective(steps[i].results)
      /\ ~uncharged => CostOf(steps) = Spent
      /\ dialect = "acp" => Range(Asked) \ {"c1"} \subseteq Range(CallsOf(steps))
      /\ dialect = "goosetext" =>
           Len(CallsOf(steps)) = Cardinality({i \in DOMAIN log : Written[i].kind = "tool"})
====
