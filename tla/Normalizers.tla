---- MODULE Normalizers ----
(***************************************************************************)
(* The normalizers of src/normalize: each takes the rows of one log of its *)
(* agent and returns the steps of a trajectory (atif/types.ts).            *)
(*                                                                         *)
(* First those whose agents write a log row by row: Claude, Codex,         *)
(* OpenClaw, Goose, mini-SWE and the agent client protocol.  Then those    *)
(* whose logs must be put together before they can be read: OpenHands,     *)
(* Kimi, Gemini and Hermes.  Then those that go turn by turn: Cline, Pi,   *)
(* Cursor, Trae, OpenCode, Copilot, MiMo, Qwen, Antigravity, SWE-agent and *)
(* Serf.                                                                   *)
(*                                                                         *)
(* What was said and thought is left out: a step is told by whose it is,   *)
(* its calls, the results that came back and what it cost.  The position   *)
(* is its step_id.                                                         *)
(***************************************************************************)
EXTENDS Naturals, Sequences, FiniteSets, SequencesExt

CONSTANT None

----
(* The trajectory. *)

\* A row of a log, whatever its dialect: the message it belongs to (key), the calls
\* it asks for, the results it brings, what it says was spent, and whether it says
\* anything.  A call without an id of its own is None.
Row(kind, key, calls, results, cost, text) ==
  [kind |-> kind, key |-> key, calls |-> calls, results |-> results, cost |-> cost,
   text |-> text]

Step(source, key, calls, results, cost) ==
  [source |-> source, key |-> key, calls |-> calls, results |-> results, cost |-> cost]
Agent(key, calls, cost) == Step("agent", key, calls, <<>>, cost)
User == Step("user", None, <<>>, <<>>, None)
System == Step("system", None, <<>>, <<>>, None)

\* The agent's step of a message, 0 when there is none.
TurnOf(steps, key) ==
  LET same == {i \in DOMAIN steps : key # None /\ steps[i].key = key} IN
  IF same = {} THEN 0 ELSE Max(same)

LastAgent(steps) ==
  LET agents == {i \in DOMAIN steps : steps[i].source = "agent"} IN
  IF agents = {} THEN 0 ELSE Max(agents)

Attach(steps, i, result) == [steps EXCEPT ![i].results = Append(@, result)]

\* Each result goes to the step that owns its call; one that nobody owns is dropped.
AttachOwned(steps, owner, results) ==
  FoldLeft(LAMBDA ss, r : IF r \in DOMAIN owner THEN Attach(ss, owner[r], r) ELSE ss,
           steps, results)

\* All calls of rows or of steps, in order.
CallsOf(seq) == FlattenSeq([i \in DOMAIN seq |-> seq[i].calls])
ResultsOf(seq) == FlattenSeq([i \in DOMAIN seq |-> seq[i].results])
CostOf(seq) == FoldLeft(LAMBDA n, s : IF s.cost = None THEN n ELSE n + s.cost, 0, seq)

\* The first of each.
Firsts(seq) ==
  FoldLeft(LAMBDA out, c : IF c \in Range(out) THEN out ELSE Append(out, c), <<>>, seq)

\* validateTrajectory.
Valid(steps) ==
  /\ steps # <<>>
  /\ \A i \in DOMAIN steps :
       LET s == steps[i] IN
       /\ s.source # "agent" => s.calls = <<>> /\ s.results = <<>> /\ s.cost = None
       /\ IsInjective(s.calls)
       /\ Range(s.results) \subseteq Range(s.calls) \cup {None}

\* A normalizer that validates what it made throws it away: there is no trajectory.
Validated(steps) == IF Valid(steps) THEN steps ELSE <<>>

\* An empty log is one empty step.
OrEmpty(steps) == IF steps = <<>> THEN <<User>> ELSE steps

----
(* claude.ts *)

\* dedupByUuid: what is replayed after a compaction counts once.
OncePerUuid(log) ==
  FoldLeft(LAMBDA out, r :
             IF r.uuid # None /\ \E k \in DOMAIN out : out[k].uuid = r.uuid
             THEN out ELSE Append(out, r),
           <<>>, log)

\* Mutant of LastUsage: the first snapshot of a message.
FirstUsage(rows, key) ==
  LET same == SelectSeq(rows, LAMBDA r : r.kind = "assistant" /\ r.key = key /\ r.cost # None)
  IN  IF same = <<>> THEN None ELSE Head(same).cost

\* lastUsageByMessageId: a message in flight is written again with what it cost so far.
LastUsage(rows, key) ==
  LET same == SelectSeq(rows, LAMBDA r : r.kind = "assistant" /\ r.key = key /\ r.cost # None)
  IN  IF same = <<>> THEN None ELSE Last(same).cost

ClaudeTurn(st, r, rows) ==
  LET turn == TurnOf(st.steps, r.key)
      fresh == SelectSeq(Firsts(r.calls), LAMBDA c : c \notin st.seen)
      cost == IF r.key = None THEN r.cost ELSE LastUsage(rows, r.key)
      at == IF turn = 0 THEN Len(st.steps) + 1 ELSE turn
  IN  [steps |-> IF turn = 0 THEN Append(st.steps, Agent(r.key, fresh, cost))
                 ELSE [st.steps EXCEPT ![turn].calls = @ \o fresh],
       owner |-> [c \in Range(fresh) |-> at] @@ st.owner,
       seen |-> st.seen \cup Range(fresh)]

\* A row that is itself a tool_use block.
ClaudeUse(st, r) ==
  [st EXCEPT !.steps = Append(@, Agent(None, r.calls, None)),
             !.owner = [c \in Range(r.calls) |-> Len(st.steps) + 1] @@ @]

ClaudeUser(st, r) ==
  LET homed == AttachOwned(st.steps, st.owner, r.results) IN
  [st EXCEPT !.steps = IF r.text THEN Append(homed, User) ELSE homed]

Claude(log) ==
  LET rows == OncePerUuid(log)
      next(st, r) == CASE r.kind = "assistant" -> ClaudeTurn(st, r, rows)
                       [] r.kind = "use" -> ClaudeUse(st, r)
                       [] r.kind = "user" -> ClaudeUser(st, r)
  IN  FoldLeft(next, [steps |-> <<>>, owner |-> <<>>, seen |-> {}], rows).steps

----
(* codex.ts *)

\* A message, of the assistant or of another.
CodexMessage(st, r) ==
  [st EXCEPT !.steps = Append(@, IF r.key = "assistant" THEN Agent(None, <<>>, None) ELSE User)]

\* One payload may be several calls, of which the first keeps the id; a payload
\* whose id was seen is skipped.
CodexCall(st, r) ==
  IF r.calls[1] \in st.seen THEN st
  ELSE [st EXCEPT !.steps = Append(@, Agent(None, r.calls, None)),
                  !.seen = IF r.calls[1] = None THEN @ ELSE @ \cup {r.calls[1]},
                  !.owner = IF r.calls[1] = None THEN @
                            ELSE [c \in {r.calls[1]} |-> Len(st.steps) + 1] @@ @]

\* The output goes to its call once; one without a call is a step of its own.
CodexOutput(st, r) ==
  LET c == r.results[1] IN
  CASE c # None /\ c \in st.completed -> st
    [] c # None /\ c \notin st.completed /\ c \in DOMAIN st.owner ->
         [st EXCEPT !.steps = Attach(@, st.owner[c], c), !.completed = @ \cup {c}]
    [] OTHER -> [st EXCEPT !.steps = Append(@, Step("agent", None, <<>>, <<None>>, None))]

\* token_count: the running total and the last request; both repeated, it is no request.
CodexUsage(st, r) ==
  LET repeated == st.previous # None /\ st.previous = <<r.key, r.cost>> IN
  [st EXCEPT !.turns = IF r.cost = None \/ repeated THEN @ ELSE Append(@, r.cost),
             !.previous = IF r.key = None \/ r.cost = None THEN None ELSE <<r.key, r.cost>>]

CodexRow(st, r) ==
  CASE r.kind = "message" -> CodexMessage(st, r)
    [] r.kind = "call" -> CodexCall(st, r)
    [] r.kind = "output" -> CodexOutput(st, r)
    [] r.kind = "usage" -> CodexUsage(st, r)
    [] r.kind = "model" -> [st EXCEPT !.model = TRUE]

\* Each request is charged to an agent's step of its own, or to one made for it.
ChargeTurns(steps, turns) ==
  LET agents == SelectSeq([i \in DOMAIN steps |-> i], LAMBDA i : steps[i].source = "agent")
  IN  FoldLeft(LAMBDA ss, i : IF i <= Len(agents) THEN [ss EXCEPT ![agents[i]].cost = turns[i]]
                              ELSE Append(ss, Agent(None, <<>>, turns[i])),
               steps, [i \in DOMAIN turns |-> i])

Codex(log) ==
  LET st == FoldLeft(CodexRow,
                     [steps |-> <<>>, seen |-> {}, owner |-> <<>>, completed |-> {},
                      turns |-> <<>>, previous |-> None, model |-> FALSE], log)
      steps == OrEmpty(st.steps)
  IN  Validated(IF st.model THEN ChargeTurns(steps, st.turns) ELSE steps)

----
(* openclaw.ts, the session of messages *)

\* The results that follow an assistant's message at once are its own, as long as
\* they answer what is pending.
OpenclawResult(st, r) ==
  LET c == r.results[1] IN
  IF ~st.open \/ (c # None /\ c \notin st.pending) THEN [st EXCEPT !.open = FALSE]
  ELSE [steps |-> Attach(st.steps, Len(st.steps), c), pending |-> st.pending \ {c},
        open |-> st.pending \ {c} # {}]

OpenclawRow(st, r) ==
  CASE r.kind = "user" -> [st EXCEPT !.steps = Append(@, User), !.open = FALSE]
    [] r.kind = "assistant" ->
         [steps |-> Append(st.steps, Agent(None, r.calls, r.cost)),
          pending |-> Range(r.calls) \ {None}, open |-> TRUE]
    [] r.kind = "result" -> OpenclawResult(st, r)

\* A session of less than two steps is read as an envelope instead: one message of
\* the user and one of the agent, or nothing that can be parsed.
OpenclawEnvelope(log) == IF log = <<>> THEN <<User>> ELSE <<User, Agent(None, <<>>, None)>>

Openclaw(log) ==
  LET steps == FoldLeft(OpenclawRow, [steps |-> <<>>, pending |-> {}, open |-> FALSE], log).steps
  IN  IF Len(steps) < 2 THEN OpenclawEnvelope(log) ELSE Validated(steps)

----
(* goose.ts: the stream of messages, whose parts come in several rows, and the text *)

GooseEntry(entries, r) ==
  LET at == TurnOf(entries, r.key) IN
  IF r.kind = "message" /\ at # 0
  THEN [entries EXCEPT ![at].calls = @ \o r.calls, ![at].results = @ \o r.results,
                       ![at].text = @ \/ r.text]
  ELSE Append(entries, r)

GooseStep(steps, e) ==
  CASE e.kind = "error" -> Append(steps, Agent(None, <<>>, None))
    [] e.kind = "message" /\ e.role = "user" ->
         IF e.results # <<>> /\ steps # <<>> /\ Last(steps).source = "agent"
         THEN [steps EXCEPT ![Len(steps)].results = @ \o e.results]
         ELSE IF e.text THEN Append(steps, User) ELSE steps
    [] e.kind = "message" /\ e.role = "assistant" ->
         IF ~e.text /\ e.calls = <<>> THEN steps
         ELSE Append(steps, Step("agent", None, e.calls, e.results, None))

GooseStream(log) ==
  Validated(OrEmpty(FoldLeft(GooseStep, <<>>, FoldLeft(GooseEntry, <<>>, log))))

\* parseGooseTextLog: after a separator the arguments, a gap, the output, a gap, and
\* what the agent says next.
GooseLine(st, line) ==
  CASE line = "tool" -> [events |-> Append(IF st.said THEN Append(st.events, "text") ELSE st.events,
                                           "tool"),
                         said |-> FALSE, mode |-> "arguments"]
    [] line # "tool" /\ st.mode = "said" -> [st EXCEPT !.said = @ \/ line = "words"]
    [] line = "gap" /\ st.mode = "arguments" -> [st EXCEPT !.mode = "output"]
    [] line = "gap" /\ st.mode = "output" -> [st EXCEPT !.mode = "said"]
    [] OTHER -> st

\* Every call of the text has its output, under an id that is its step's.
GooseText(log) ==
  LET st == FoldLeft(LAMBDA s, r : GooseLine(s, r.kind),
                     [events |-> <<>>, said |-> FALSE, mode |-> "said"], log)
      events == IF st.said THEN Append(st.events, "text") ELSE st.events
  IN  Validated(OrEmpty([i \in DOMAIN events |->
        IF events[i] = "text" THEN Agent(None, <<>>, None)
        ELSE Step("agent", None, <<i>>, <<i>>, None)]))

----
(* mini-swe.ts *)

\* A result goes to its call's step, and else to the agent's last.
MiniSweResult(st, c) ==
  LET at == IF c \in DOMAIN st.owner THEN st.owner[c] ELSE LastAgent(st.steps)
  IN  IF at = 0 THEN st
      ELSE [st EXCEPT !.steps = Attach(@, at, IF c \in DOMAIN st.owner THEN c ELSE None)]

\* Only the second message can be the user's own; what says it is the user later on
\* is the environment.
MiniSweMessage(st, r, i) ==
  CASE r.kind = "system" -> [st EXCEPT !.steps = Append(@, System)]
    [] r.kind = "user" /\ i = 2 -> [st EXCEPT !.steps = Append(@, User)]
    [] r.kind = "user" /\ i # 2 -> MiniSweResult(st, None)
    [] r.kind = "tool" -> MiniSweResult(st, r.results[1])
    [] r.kind = "assistant" ->
         [steps |-> Append(st.steps, Agent(None, r.calls, r.cost)),
          owner |-> [c \in Range(r.calls) |-> Len(st.steps) + 1] @@ st.owner]

MiniSwe(log) ==
  Validated(OrEmpty(
    FoldLeft(LAMBDA st, i : MiniSweMessage(st, log[i], i),
             [steps |-> <<>>, owner |-> <<>>], [i \in DOMAIN log |-> i]).steps))

----
(* acp.ts: updates of a session, cut into steps *)

NoStep == [said |-> FALSE, calls |-> <<>>, out |-> {}, costs |-> <<>>, asked |-> FALSE, cycle |-> FALSE]

HasContent(s) == s.said \/ s.calls # <<>> \/ s.asked

Flush(st) ==
  [st EXCEPT !.done = IF HasContent(st.step) THEN Append(@, st.step) ELSE @, !.step = NoStep]

\* Words after a finished call begin another step.
AcpChunk(st, r) ==
  LET s == IF st.step.cycle THEN Flush(st) ELSE st IN
  [s EXCEPT !.step.said = @ \/ r.text]

\* Usage ends the step it is of; before anything there is no step for it.
AcpUsage(st, r) ==
  IF ~HasContent(st.step) THEN [st EXCEPT !.orphans = Append(@, r.cost)]
  ELSE Flush([st EXCEPT !.step.costs = Append(@, r.cost)])

\* A call or an update of one: another call after a finished one begins a step.
AcpCall(st, r) ==
  LET c == r.calls[1]
      s == IF st.step.cycle /\ c \notin Range(st.step.calls) THEN Flush(st) ELSE st
  IN  [s EXCEPT !.step.calls = IF c \in Range(@) THEN @ ELSE Append(@, c),
                !.step.asked = @ \/ c \in s.permissions,
                !.permissions = @ \ {c},
                !.step.out = IF r.text THEN @ \cup {c} ELSE @,
                !.step.cycle = @ \/ r.completed]

AcpRow(st, r) ==
  CASE r.kind = "permission" -> [st EXCEPT !.permissions = @ \cup {r.calls[1]}]
    [] r.kind = "chunk" -> AcpChunk(st, r)
    [] r.kind = "usage" -> AcpUsage(st, r)
    [] r.kind = "call" -> AcpCall(st, r)

\* The calls of a step in their order, and one observation of each that put out.
AcpStep(s) ==
  Step("agent", None, s.calls, SelectSeq(s.calls, LAMBDA c : c \in s.out),
       IF s.costs = <<>> THEN None ELSE FoldLeft(LAMBDA n, c : n + c, 0, s.costs))

Acp(log) ==
  LET st == Flush(FoldLeft(AcpRow, [done |-> <<>>, step |-> NoStep, permissions |-> {},
                                    orphans |-> <<>>], log))
  IN  Validated(OrEmpty([i \in DOMAIN st.done |-> AcpStep(st.done[i])]))

----
(* openhands.ts: events, of which a call and its observation may be two, with what  *)
(* was spent since the beginning of the session.                                   *)

\* commitPendingUsage: a step costs what was spent beyond the steps before it.
Commit(st) ==
  LET n == Len(st.steps) IN
  IF n = 0 \/ st.spent = None \/ st.spent <= CostOf(st.steps) THEN st.steps
  ELSE [st.steps EXCEPT ![n].cost = st.spent - CostOf(st.steps)]

\* An observation of the last step's call joins it.
Joins(st, r) ==
  /\ st.steps # <<>> /\ r.results # <<>> /\ r.calls # <<>>
  /\ LET last == Last(st.steps) IN
     /\ last.source = "agent" /\ last.results = <<>>
     /\ last.calls # <<>> /\ last.calls[1] # None /\ last.calls[1] = r.calls[1]

OpenhandsEvent(st, r) ==
  LET n == Len(st.steps) IN
  CASE ~r.text /\ r.calls = <<>> /\ r.results = <<>> -> st
    [] (r.text \/ r.calls # <<>> \/ r.results # <<>>) /\ Joins(st, r) ->
         [steps |-> [st.steps EXCEPT ![n].results = r.results],
          spent |-> IF r.cost = None THEN st.spent ELSE r.cost]
    [] OTHER ->
         [steps |-> Append(Commit(st), Step(r.kind, None, r.calls, r.results, None)),
          spent |-> r.cost]

Openhands(log) ==
  LET st == FoldLeft(OpenhandsEvent, [steps |-> <<>>, spent |-> None], log)
  IN  Validated(OrEmpty(Commit(st)))

----
(* kimi.ts: loop events; what is said of a step may come before its call. *)

KimiCall(st, r) ==
  [st EXCEPT !.steps = Append(@, Agent(r.key, r.calls, None)),
             !.owner = [c \in Range(r.calls) |-> Len(st.steps) + 1] @@ @,
             !.said = SelectSeq(@, LAMBDA k : k # r.key),
             !.thought = SelectSeq(@, LAMBDA k : k # r.key)]

\* A part waits for the call of its step, unless there was one.
KimiPart(st, r) ==
  IF TurnOf(st.steps, r.key) # 0 THEN st
  ELSE IF r.text THEN [st EXCEPT !.said = Firsts(Append(@, r.key))]
  ELSE [st EXCEPT !.thought = Firsts(Append(@, r.key))]

KimiRow(st, r) ==
  CASE r.kind = "call" -> KimiCall(st, r)
    [] r.kind = "part" -> KimiPart(st, r)
    [] r.kind = "result" -> [st EXCEPT !.steps = AttachOwned(@, st.owner, r.results)]
    [] r.kind = "turn" -> [st EXCEPT !.turns = Append(@, r.cost)]
    [] r.kind = "session" -> [st EXCEPT !.session = Append(@, r.cost)]

\* What was said without a call, then thought without a word, then the usage of each
\* turn, are steps of their own.  A session's usage is for want of the turns'.
Kimi(log) ==
  LET st == FoldLeft(KimiRow, [steps |-> <<>>, owner |-> <<>>, said |-> <<>>, thought |-> <<>>,
                               turns |-> <<>>, session |-> <<>>], log)
      silent == SelectSeq(st.thought, LAMBDA k : k \notin Range(st.said))
  IN  Validated(OrEmpty(
        st.steps \o [i \in DOMAIN st.said |-> Agent(st.said[i], <<>>, None)]
                 \o [i \in DOMAIN silent |-> Agent(silent[i], <<>>, None)]
                 \o [i \in DOMAIN st.turns |-> Agent(None, <<>>, st.turns[i])]))

----
(* gemini.ts: a session that is written over and taken back. *)

\* reconstructGeminiSession: a message with a known id replaces it where it stands; a
\* rewind takes back everything from a message on, and everything if it is unknown.
GeminiRecord(st, r) ==
  LET at == TurnOf(st.slots, r.key) IN
  CASE r.kind = "rewind" -> [st EXCEPT !.slots = IF at = 0 THEN <<>> ELSE SubSeq(@, 1, at - 1)]
    [] r.kind = "set" -> [st EXCEPT !.set = r.messages]
    [] OTHER -> [st EXCEPT !.slots = IF at = 0 THEN Append(@, r) ELSE [@ EXCEPT ![at] = r]]

GeminiSession(log) ==
  LET st == FoldLeft(GeminiRecord, [slots |-> <<>>, set |-> <<>>], log)
  IN  IF st.slots = <<>> THEN st.set ELSE st.slots

\* Every call is a step with its own output; the first carries what the message cost,
\* and a message without a call is carried by a step of its own.
GeminiMessage(st, m) ==
  LET fresh == SelectSeq(Firsts(m.calls), LAMBDA c : c \notin st.seen)
      cost == IF m.key # None /\ m.key \in st.counted THEN None ELSE m.cost
      turn == [i \in DOMAIN fresh |->
                 Step("agent", m.key, <<fresh[i]>>,
                      IF fresh[i] \in Range(m.results) THEN <<fresh[i]>> ELSE <<>>,
                      IF i = 1 THEN cost ELSE None)]
  IN  IF m.kind # "gemini" THEN st
      ELSE [steps |-> st.steps \o IF fresh = <<>> /\ (cost # None \/ m.text)
                                  THEN <<Agent(m.key, <<>>, cost)>> ELSE turn,
            seen |-> st.seen \cup Range(fresh),
            counted |-> st.counted \cup IF cost = None \/ m.key = None THEN {} ELSE {m.key}]

Gemini(log) ==
  Validated(OrEmpty(FoldLeft(GeminiMessage, [steps |-> <<>>, seen |-> {}, counted |-> {}],
                             GeminiSession(log)).steps))

----
(* hermes.ts: the messages of an exported session. *)

\* The tool messages that follow a call at once are its results, whatever their ids.
HermesMessage(st, m) ==
  CASE m.kind = "user" ->
         [steps |-> IF m.text THEN Append(st.steps, User) ELSE st.steps, open |-> FALSE]
    [] m.kind = "assistant" ->
         [steps |-> IF m.calls # <<>> \/ m.text
                    THEN Append(st.steps, Agent(None, m.calls, m.cost)) ELSE st.steps,
          open |-> m.calls # <<>>]
    [] m.kind = "tool" ->
         IF st.open THEN [st EXCEPT !.steps = Attach(@, Len(@), m.results[1])] ELSE st

Hermes(log) ==
  Validated(OrEmpty(FoldLeft(HermesMessage, [steps |-> <<>>, open |-> FALSE], log).steps))

----
(* Turn by turn. *)

\* The last agent's step that asked for the call, 0 when there is none.
Holder(steps, c) ==
  LET asked == {i \in DOMAIN steps : steps[i].source = "agent" /\ c \in Range(steps[i].calls)}
  IN  IF asked = {} THEN 0 ELSE Max(asked)

AttachHeld(steps, results) ==
  FoldLeft(LAMBDA ss, c : IF Holder(ss, c) = 0 THEN ss ELSE Attach(ss, Holder(ss, c), c),
           steps, results)

\* One step for each call, with the results that are known; the first carries the cost.
StepPerCall(r, known) ==
  [i \in DOMAIN r.calls |->
     Step("agent", r.key, <<r.calls[i]>>,
          IF r.calls[i] \in known THEN <<r.calls[i]>> ELSE <<>>,
          IF i = 1 THEN r.cost ELSE None)]

\* The results in the rows of a kind.
Known(log, kind) == UNION {Range(log[i].results) : i \in {j \in DOMAIN log : log[j].kind = kind}}

----
(* cline.ts: the results come with the next message of the user; those of no call   *)
(* are read as what the user says.                                                  *)

ClineMessage(steps, r) ==
  IF r.kind = "assistant" THEN Append(steps, Agent(None, r.calls, r.cost))
  ELSE LET homed == AttachHeld(steps, r.results)
           orphans == {c \in Range(r.results) : Holder(steps, c) = 0}
       IN  IF r.text \/ orphans # {} THEN Append(homed, User) ELSE homed

Cline(log) == Validated(OrEmpty(FoldLeft(ClineMessage, <<>>, log)))

----
(* pi.ts *)

PiEntry(st, r) ==
  CASE r.kind = "user" -> [st EXCEPT !.steps = IF r.text THEN Append(@, User) ELSE @]
    [] r.kind = "result" -> [st EXCEPT !.steps = AttachOwned(@, st.owner, r.results)]
    [] r.kind = "assistant" /\ r.calls = <<>> ->
         [st EXCEPT !.steps = IF r.text \/ r.cost # None THEN Append(@, Agent(None, <<>>, r.cost))
                              ELSE @]
    [] r.kind = "assistant" /\ r.calls # <<>> ->
         LET at(c) == Len(st.steps) + CHOOSE i \in DOMAIN r.calls : r.calls[i] = c IN
         [steps |-> st.steps \o StepPerCall(r, {}),
          owner |-> [c \in Range(r.calls) |-> at(c)] @@ st.owner]

Pi(log) == Validated(OrEmpty(FoldLeft(PiEntry, [steps |-> <<>>, owner |-> <<>>], log).steps))

----
(* cursor.ts: a call names the model's call it is of, and comes with its result once *)
(* it is complete; the usage is that of the agent's last step.                      *)

CursorCall(st, r) ==
  IF r.key # None /\ r.key \in DOMAIN st.turns
  THEN [st EXCEPT !.steps[st.turns[r.key]].calls = @ \o r.calls,
                  !.steps[st.turns[r.key]].results = @ \o r.results]
  ELSE LET at == Len(st.steps) + 1 IN
       [steps |-> Append(st.steps, Step("agent", r.key, r.calls, r.results, None)),
        turns |-> IF r.key = None THEN st.turns ELSE (r.key :> at) @@ st.turns,
        last |-> at]

CursorRow(st, r) ==
  CASE r.kind = "user" -> [st EXCEPT !.steps = Append(@, User)]
    [] r.kind = "assistant" ->
         LET at == Len(st.steps) + 1 IN
         [steps |-> Append(st.steps, Agent(r.key, <<>>, None)),
          turns |-> IF r.key = None THEN st.turns ELSE (r.key :> at) @@ st.turns,
          last |-> at]
    [] r.kind = "call" -> CursorCall(st, r)
    [] r.kind = "result" ->
         IF st.last = 0 THEN st
         ELSE [st EXCEPT !.steps[st.last].cost = r.cost, !.last = 0]

Cursor(log) ==
  Validated(OrEmpty(FoldLeft(CursorRow, [steps |-> <<>>, turns |-> <<>>, last |-> 0], log).steps))

----
(* trae.ts: the interactions with the model, and beside them the steps of the agent, *)
(* where the results are, and errors that count when there was no interaction.      *)

TraeTurn(r, known) ==
  Step("agent", None, r.calls, SelectSeq(r.calls, LAMBDA c : c \in known), r.cost)

\* Nothing at all is not a log of Trae, and there is no trajectory.
Trae(log) ==
  LET turns == SelectSeq(log, LAMBDA r : r.kind = "interaction")
      failed == SelectSeq(log, LAMBDA r : r.kind = "error")
  IN  Validated(IF turns # <<>>
                THEN [i \in DOMAIN turns |-> TraeTurn(turns[i], Known(log, "step"))]
                ELSE [i \in DOMAIN failed |-> Agent(None, <<>>, None)])

----
(* opencode.ts: what is only said, at no cost, is no step. *)

OpencodeMessage(steps, r) ==
  CASE r.calls # <<>> -> steps \o StepPerCall(r, Range(r.results))
    [] r.calls = <<>> /\ r.cost # None -> Append(steps, Agent(None, <<>>, r.cost))
    [] OTHER -> steps

Opencode(log) == Validated(OrEmpty(FoldLeft(OpencodeMessage, <<>>, log)))

----
(* copilot.ts: the results are anywhere in the log; what was spent is told at the end. *)

Copilot(log) ==
  LET asked == SelectSeq(log, LAMBDA r : r.kind = "assistant")
      ends == SelectSeq(log, LAMBDA r : r.kind = "shutdown" /\ r.cost # None)
      steps == OrEmpty(FlattenSeq([i \in DOMAIN asked |->
                                     StepPerCall(asked[i], Known(log, "complete"))]))
  IN  Validated(IF ends = <<>> THEN steps ELSE Append(steps, Agent(None, <<>>, Last(ends).cost)))

----
(* mimo.ts: a turn is what stands between a start and a finish; one without a finish *)
(* is lost.                                                                         *)

MimoRow(st, r) ==
  CASE r.kind = "start" -> [st EXCEPT !.open = TRUE, !.calls = <<>>, !.results = <<>>]
    [] r.kind = "part" /\ st.open -> [st EXCEPT !.calls = @ \o r.calls, !.results = @ \o r.results]
    [] r.kind = "finish" /\ st.open ->
         [st EXCEPT !.steps = Append(@, Step("agent", None, st.calls, st.results, r.cost)),
                    !.open = FALSE]
    [] OTHER -> st

Mimo(log) ==
  Validated(OrEmpty(
    FoldLeft(MimoRow, [steps |-> <<>>, open |-> FALSE, calls |-> <<>>, results |-> <<>>], log).steps))

----
(* qwen.ts *)

QwenEvent(steps, r) ==
  CASE r.kind = "user" -> IF r.text THEN Append(steps, User) ELSE steps
    [] r.kind = "assistant" -> Append(steps, Agent(None, r.calls, r.cost))
    [] r.kind = "result" -> AttachHeld(steps, r.results)

Qwen(log) == Validated(OrEmpty(FoldLeft(QwenEvent, <<>>, log)))

----
(* antigravity.ts: a call has no id and no result; its place is its id. *)

AntigravityEntry(steps, r) ==
  CASE r.kind = "user" -> IF r.text THEN Append(steps, User) ELSE steps
    [] r.kind = "planner" /\ r.calls = <<>> ->
         IF r.text THEN Append(steps, Agent(None, <<>>, None)) ELSE steps
    [] OTHER -> steps \o [i \in DOMAIN r.calls |-> Agent(None, <<r.calls[i]>>, None)]

Antigravity(log) == Validated(OrEmpty(FoldLeft(AntigravityEntry, <<>>, log)))

----
(* swe-agent.ts: each entry is a step, with an action and what came of it; the first *)
(* may hold what the system said.                                                   *)

SweAgent(log) ==
  LET prompt == IF log # <<>> /\ Head(log).kind = "prompted" THEN <<System>> ELSE <<>>
  IN  Validated(OrEmpty(prompt \o
        [i \in DOMAIN log |->
           Step("agent", None, log[i].calls,
                IF log[i].calls = <<>> THEN <<>> ELSE log[i].results, None)]))

----
(* serf.ts: the log is a trajectory, taken over as it is. *)

Serf(log) ==
  Validated([i \in DOMAIN log |->
               Step(log[i].kind, None, log[i].calls, log[i].results, log[i].cost)])
====
