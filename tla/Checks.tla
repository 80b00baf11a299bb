---- MODULE Checks ----
(***************************************************************************)
(* The checks of a scenario: what checks.sh declares and its committed     *)
(* manifest (check/manifest.ts), the shell that runs a phase and what its  *)
(* commands record (checks/index.ts, cli/check-tool.ts), and the comparison *)
(* of the two, without which a run is not judged (composer.ts).            *)
(***************************************************************************)
EXTENDS Naturals, Sequences, FiniteSets

CONSTANTS
  Blank,      \* nothing: any arguments, no manifest, no exit code and no verdict yet
  Scripts,    \* each a function of the phases to sequences of lines
  Manifested, \* the scripts that the manifest may have been extracted from
  Expansions  \* what a variable may stand for when the line runs

VARIABLES script, manifest, phase, next, records, exit, verdict

checksVars == <<script, manifest, phase, next, records, exit, verdict>>

Phases == {"pre", "post"}

\* What a line says is something, whether it is expanded or not.
ASSUME ChecksAssumption ==
  /\ Blank \notin Nat \cup {"pass", "fail", "indeterminate"}
  /\ \A s \in Scripts \cup Manifested : \A p \in Phases :
       /\ s[p] \in Seq({s[p][i] : i \in DOMAIN s[p]})
       /\ \A i \in DOMAIN s[p] : s[p][i].arg # Blank

(* A line is [verb, arg, dollar, negated, form]: arg is what it says, dollar *)
(* that it expands a variable, and form "plain" a check with its arguments,  *)
(* "guarded" one behind || true, "foreign" a command that is no check.       *)

Transcript(line) == line.verb = "trace"

\* toEntryKeyParts: a negated question to the transcript is recorded under the asker's name.
Key(p, line, arg) ==
  [phase |-> p, negated |-> line.negated, args |-> arg,
   check |-> IF Transcript(line) /\ line.negated THEN "check-transcript" ELSE line.verb]

Entry(p, line) == Key(p, line, IF line.dollar THEN Blank ELSE line.arg)

\* The lines of both phases, one after the other.
Positions(s) == 1 .. Len(s["pre"]) + Len(s["post"])
PhaseAt(s, i) == IF i <= Len(s["pre"]) THEN "pre" ELSE "post"
LineAt(s, i) == IF i <= Len(s["pre"]) THEN s["pre"][i] ELSE s["post"][i - Len(s["pre"])]
EntryAt(s, i) == Entry(PhaseAt(s, i), LineAt(s, i))

\* functionBodies, tokenize: the shell is not read further than words.
Extractable(s) == \A p \in Phases : \A i \in DOMAIN s[p] : s[p][i].form = "plain"

\* extractManifest: equal lines are one entry with a count.
Extract(s) ==
  [k \in {EntryAt(s, i) : i \in Positions(s)} |-> Cardinality({i \in Positions(s) : EntryAt(s, i) = k})]

----
(* compareRecords. *)

Meets(record, key) ==
  /\ record.phase = key.phase /\ record.check = key.check /\ record.negated = key.negated
  /\ key.args # Blank => record.args = key.args

\* Mutant of FirstServed: those that take any arguments.
AnyFirst(m) == {k \in DOMAIN m : k.args = Blank}

\* The entries that name their arguments, which the others must not take from them.
FirstServed(m) == {k \in DOMAIN m : k.args # Blank}

\* The first records of those left that an entry takes, one for each time it is expected.
\* No two entries that are served together meet one record.
TakenBy(m, rs, left, k) ==
  LET hits == {i \in left : Meets(rs[i], k)}
  IN  {i \in hits : Cardinality({j \in hits : j < i}) < m[k]}
Served(m, rs, left, keys) == UNION {TakenBy(m, rs, left, k) : k \in keys}

Missing(m, rs, left, keys) == {k \in keys : Cardinality(TakenBy(m, rs, left, k)) < m[k]}

LeftOver(m, rs) == DOMAIN rs \ Served(m, rs, DOMAIN rs, FirstServed(m))

CompareRecords(m, rs) ==
  LET others == DOMAIN m \ FirstServed(m)
  IN  [missing |-> Missing(m, rs, DOMAIN rs, FirstServed(m)) \cup Missing(m, rs, LeftOver(m, rs), others),
       unexpected |-> LeftOver(m, rs) \ Served(m, rs, LeftOver(m, rs), others)]

Drifted ==
  manifest # Blank /\
    LET told == CompareRecords(manifest, records)
    IN  told.missing # {} \/ told.unexpected # {}

----
(* A phase. *)

ChecksInit ==
  /\ script \in Scripts
  /\ manifest \in {Blank} \cup {Extract(s) : s \in {c \in Manifested : Extractable(c)}}
  /\ phase = "pre" /\ next = 1
  /\ records = <<>>
  /\ exit = [p \in Phases |-> Blank]
  /\ verdict = Blank

Line == script[phase][next]

\* The shell stands at a line.
Running == verdict = Blank /\ exit[phase] = Blank /\ next <= Len(script[phase])

Recorded(line, arg, status, passed) ==
  [phase |-> phase, negated |-> line.negated, args |-> arg, status |-> status, passed |-> passed,
   check |-> IF status = "errored" /\ line.negated THEN "not" ELSE Key(phase, line, arg).check]

Record(status, passed) ==
  \E a \in IF Line.dollar THEN Expansions ELSE {Line.arg} :
    records' = Append(records, Recorded(Line, a, status, passed))

\* The last command's code, where records of the phase excuse an ordinary failure.
Settled(code, rs) ==
  IF code = 1 /\ (\E i \in DOMAIN rs : rs[i].phase = phase) THEN 0 ELSE code

\* Goes on after a line that left this code: the trap ends the phase at a code that is
\* no answer, unless the line caught it.
Proceed(code) ==
  LET got == IF Line.form = "guarded" THEN 0 ELSE code
  IN  IF got >= 126 \/ next = Len(script[phase])
      THEN exit' = [exit EXCEPT ![phase] = Settled(got, records')] /\ UNCHANGED next
      ELSE next' = next + 1 /\ UNCHANGED exit

Check(passed) ==
  /\ Running /\ Line.form # "foreign"
  /\ Record("completed", passed)
  /\ Proceed(IF passed THEN 0 ELSE 1)
  /\ UNCHANGED <<script, manifest, phase, verdict>>

\* Broken, refused, thrown: recorded as errored, and no answer.
Break ==
  /\ Running /\ Line.form # "foreign"
  /\ Record("errored", FALSE)
  /\ Proceed(127)
  /\ UNCHANGED <<script, manifest, phase, verdict>>

\* The checker is killed before it records.
Kill ==
  /\ Running
  /\ UNCHANGED records /\ Proceed(137)
  /\ UNCHANGED <<script, manifest, phase, verdict>>

\* A command that is no check says nothing, and may fail or not be there.
Foreign ==
  /\ Running /\ Line.form = "foreign"
  /\ UNCHANGED records
  /\ \E code \in {0, 1, 127} : Proceed(code)
  /\ UNCHANGED <<script, manifest, phase, verdict>>

\* A phase of no line, and the way from one to the other when nothing forbids it.
EndEmpty ==
  /\ verdict = Blank /\ exit[phase] = Blank /\ script[phase] = <<>>
  /\ exit' = [exit EXCEPT ![phase] = 0]
  /\ UNCHANGED <<script, manifest, phase, next, records, verdict>>

Unready == \E i \in DOMAIN records : records[i].phase = "pre" /\ ~records[i].passed

ToPost ==
  /\ phase = "pre" /\ exit["pre"] = 0 /\ ~Unready /\ verdict = Blank
  /\ phase' = "post" /\ next' = 1
  /\ UNCHANGED <<script, manifest, records, exit, verdict>>

Compose ==
  /\ verdict = Blank
  /\ \/ phase = "pre" /\ exit["pre"] # Blank /\ (exit["pre"] # 0 \/ Unready)
     \/ phase = "post" /\ exit["post"] # Blank
  /\ verdict' = IF exit[phase] # 0 \/ Unready \/ Drifted THEN "indeterminate"
                ELSE IF \A i \in DOMAIN records : records[i].phase = "post" => records[i].passed
                THEN "pass" ELSE "fail"
  /\ UNCHANGED <<script, manifest, phase, next, records, exit>>

ChecksNext ==
  (\E b \in BOOLEAN : Check(b)) \/ Break \/ Kill \/ Foreign \/ EndEmpty \/ ToPost \/ Compose

ChecksSpec == ChecksInit /\ [][ChecksNext]_checksVars

----
\* Every record is for an entry that it meets, and every entry has as many as it expects.
Answered(m, rs) ==
  \E for \in [DOMAIN rs -> DOMAIN m] :
    /\ \A i \in DOMAIN rs : Meets(rs[i], for[i])
    /\ \A k \in DOMAIN m : Cardinality({i \in DOMAIN rs : for[i] = k}) = m[k]

\* Of a scenario with a manifest, a run is judged only if its records answer the manifest
\* place by place; if the manifest is that of the script, then every line ran to its own
\* answer, and a phase that ran whole is never said to have drifted, whatever its
\* variables expanded to (manifest.ts 319, composer.ts 108, checks/index.ts 160-206).
JudgedIsChecked ==
  /\ manifest # Blank /\ verdict \in {"pass", "fail"} => Answered(manifest, records)
  /\ Extractable(script) /\ manifest = Extract(script) =>
       /\ verdict \in {"pass", "fail"} =>
            /\ DOMAIN records = Positions(script)
            /\ \A i \in DOMAIN records :
                 /\ records[i].status = "completed"
                 /\ records[i].phase = PhaseAt(script, i)
                 /\ records[i].negated = LineAt(script, i).negated
       /\ verdict = "indeterminate" =>
            \/ Unready \/ exit["pre"] # 0 \/ exit["post"] # 0
====
