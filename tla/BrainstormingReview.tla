---- MODULE BrainstormingReview ----
(***************************************************************************)
(* The score of a brainstorming session (scoreReview of                    *)
(* experiments/brainstorming-evidence.ts): a reviewer says what each       *)
(* message agreed to and what each call wrote, and receipts bind what was  *)
(* approved to what the log held.  The session follows the skill, and goes *)
(* astray a few times.                                                     *)
(***************************************************************************)
EXTENDS Naturals, Sequences

CONSTANTS
  MaxAstray,  \* bound: rows that are not the skill's
  Stops       \* how a session may end, of which one is "endpoint"

VARIABLES log, follows, astray

reviewVars == <<log, follows, astray>>

Writings == {"spec", "plan"}

\* A message and what the reviewer found in it, or a call and what it did.
Message(source, events) ==
  [source |-> source, events |-> events, effects |-> {}, changed |-> {}, success |-> "unknown"]
Call(effects, changed, success) ==
  [source |-> "tool", events |-> <<>>, effects |-> effects, changed |-> changed, success |-> success]

Understanding(aligned) == [kind |-> "understanding", aligned |-> aligned]
DesignApproval(presented) == [kind |-> "design", presented |-> presented]
ExecutionChoice == [kind |-> "method"]
Approval(stage, aligned, presented, after, intact) ==
  [kind |-> "artifact", stage |-> stage, aligned |-> aligned, presented |-> presented,
   after |-> after, intact |-> intact]

IsCall(row) == row.effects # {}
Product(row) == row.effects \cap {"implementation", "delegation"} # {}
Presents(event) == event.kind \in {"design", "artifact"}
Source(i) == IF i \in DOMAIN log THEN log[i].source ELSE "tool"

----
(* What keeps a review from being evidence. *)

Unclassified(row) ==
  \/ "unknown" \in row.effects
  \/ \E s \in row.changed : (s = "spec" /\ "spec_write" \notin row.effects)
                            \/ (s = "plan" /\ "plan_write" \notin row.effects)
  \/ row.effects \ {"read_only", "process"} # {} /\ row.success = "unknown"

\* Mutant of StaleReceipt: any receipt of an artifact that was written covers it.
CoversAnything(event, i) == \A j \in 1 .. i - 1 : event.stage \notin log[j].changed

\* The receipt was not taken between the presentation and the approval, or an artifact
\* that it stands for was written again.
StaleReceipt(event, i) ==
  LET writes == {j \in 1 .. i - 1 : event.stage \in log[j].changed}
  IN  \/ ~event.intact
      \/ event.after < event.presented \/ event.after >= i
      \/ writes = {} \/ \E j \in writes : j > event.after

Unbound(event, i) ==
  \/ Source(i) # (IF event.kind = "understanding" THEN "agent" ELSE "user")
  \/ Presents(event) /\ (event.presented >= i \/ Source(event.presented) # "agent")
  \/ event.kind = "artifact" /\ StaleReceipt(event, i)

\* Two events of one message that say the same kind of thing, of the same artifact.
Duplicated(events) ==
  \E m, n \in DOMAIN events :
    /\ m < n /\ events[m].kind = events[n].kind
    /\ events[m].kind = "artifact" => events[m].stage = events[n].stage

EvidenceErrors ==
  \/ \E i \in DOMAIN log : IsCall(log[i]) /\ Unclassified(log[i])
  \/ ~\E i \in DOMAIN log : log[i].source = "user"
  \/ \E i \in DOMAIN log : Duplicated(log[i].events)
  \/ \E i \in DOMAIN log : \E n \in DOMAIN log[i].events : Unbound(log[i].events[n], i)

----
(* What was agreed, row by row. *)

Start == [understanding |-> FALSE, design |-> FALSE, spec |-> FALSE, plan |-> FALSE,
          method |-> FALSE, violated |-> FALSE, completed |-> FALSE]

Hears(s, event) ==
  LET lost == event.kind = "understanding" /\ ~event.aligned
      approves(stage) == event.kind = "artifact" /\ event.stage = stage
      misplaced == approves("plan") /\ ~s.spec
  IN  [understanding |-> IF event.kind = "understanding" THEN event.aligned ELSE s.understanding,
       design |-> IF event.kind = "design" THEN s.understanding ELSE s.design /\ ~lost,
       spec |-> IF approves("spec") THEN s.design /\ event.aligned ELSE s.spec /\ ~lost,
       plan |-> IF approves("plan") THEN s.spec /\ event.aligned ELSE s.plan /\ ~lost,
       method |-> s.method \/ event.kind = "method",
       violated |-> s.violated \/ misplaced \/ (event.kind = "artifact" /\ ~event.aligned),
       completed |-> s.completed]

Breach(s, row) ==
  \/ "spec_write" \in row.effects /\ ~(s.understanding /\ s.design)
  \/ "plan_write" \in row.effects /\ (~s.spec \/ "spec" \in row.changed)
  \/ Product(row) /\ (~s.plan \/ ~s.method \/ row.changed # {})

Does(s, row) ==
  LET spec == s.spec /\ "spec" \notin row.changed
      plan == s.plan /\ row.changed = {}
      violated == s.violated \/ Breach(s, row)
  IN  [understanding |-> s.understanding, design |-> s.design, spec |-> spec, plan |-> plan,
       method |-> s.method, violated |-> violated,
       completed |-> \/ s.completed
                     \/ Product(row) /\ row.success = "yes" /\ plan /\ s.method /\ ~violated]

\* The events of a message, in their order; then the rows of the log.
Heard(s, events) ==
  LET heard[n \in 0 .. Len(events)] == IF n = 0 THEN s ELSE Hears(heard[n - 1], events[n])
  IN  heard[Len(events)]

Takes(s, row) == IF IsCall(row) THEN Does(s, row) ELSE Heard(s, row.events)

Agreed[i \in 0 .. Len(log)] == IF i = 0 THEN Start ELSE Takes(Agreed[i - 1], log[i])

Result == Agreed[Len(log)]

ScoreOf(stop) ==
  IF EvidenceErrors \/ stop \in {"infrastructure", "assisted"} THEN "indeterminate"
  ELSE IF Result.completed /\ ~Result.violated /\ stop = "endpoint" THEN "pass" ELSE "fail"

----
(* The session. *)

\* The way of the skill, each row placed at position i.
Lasts(i) == LET said == {j \in 1 .. i - 1 : Source(j) = "agent"}
            IN  IF said = {} THEN 0 ELSE CHOOSE j \in said : \A k \in said : k <= j
Way(i) ==
  <<Message("agent", <<Understanding(TRUE)>>),
    Message("user", <<DesignApproval(Lasts(i))>>),
    Call({"spec_write"}, {"spec"}, "yes"),
    Message("user", <<Approval("spec", TRUE, Lasts(i), i - 1, TRUE), ExecutionChoice>>),
    Call({"plan_write"}, {"plan"}, "yes"),
    Message("user", <<Approval("plan", TRUE, Lasts(i), i - 1, TRUE)>>),
    Call({"implementation"}, {}, "yes")>>

\* Of either artifact, misaligned or not, under a receipt that is late or early or forged.
Approvals(i) ==
  [kind : {"artifact"}, stage : Writings, aligned : BOOLEAN, presented : {Lasts(i)},
   after : {0, Lasts(i), i - 2, i} \cap Nat, intact : {TRUE}]
  \cup [kind : {"artifact"}, stage : Writings, aligned : {TRUE}, presented : {Lasts(i)},
        after : {i - 1}, intact : {FALSE}]

Astray(i) ==
  {Way(i)[n] : n \in 1 .. 7}
  \cup {Message("agent", <<>>), Message("agent", <<Understanding(FALSE)>>),
        Message("agent", <<Understanding(FALSE), Understanding(TRUE)>>),
        Message("agent", <<DesignApproval(Lasts(i))>>), Message("user", <<DesignApproval(i)>>)}
  \cup {Message("user", <<e>>) : e \in Approvals(i)}
  \cup {Call({"spec_write"}, {}, "no"), Call({"process"}, {"spec"}, "yes"), Call({"unknown"}, {}, "unknown"),
        Call({"implementation", "spec_write"}, {"spec"}, "yes"), Call({"implementation"}, {}, "no"),
        Call({"delegation"}, {}, "unknown"), Call({"spec_write", "plan_write"}, {"spec", "plan"}, "yes"),
        Call({"read_only"}, {}, "unknown")}

ReviewInit == log = <<>> /\ follows = 1 /\ astray = 0

Follow ==
  /\ follows <= 7
  /\ log' = Append(log, Way(Len(log) + 1)[follows])
  /\ follows' = follows + 1
  /\ UNCHANGED astray

GoAstray ==
  /\ astray < MaxAstray
  /\ \E row \in Astray(Len(log) + 1) : log' = Append(log, row)
  /\ astray' = astray + 1
  /\ UNCHANGED follows

ReviewNext == Follow \/ GoAstray

ReviewSpec == ReviewInit /\ [][ReviewNext]_reviewVars

----
(* What the skill asks for. *)

Event(i, kind) == {log[i].events[n] : n \in {m \in DOMAIN log[i].events : log[i].events[m].kind = kind}}
Aligned(i) == \E e \in Event(i, "understanding") : e.aligned
Misaligned(i) == \E e \in Event(i, "understanding") : ~e.aligned
Approves(i, stage) == \E e \in Event(i, "artifact") : e.stage = stage /\ e.aligned

\* Before k the user approved a design that followed a shared understanding, which was
\* not lost since.
Designed(k) ==
  \E u \in 1 .. k - 1, d \in 1 .. k - 1 :
    /\ u < d /\ Aligned(u) /\ Event(d, "design") # {}
    /\ \A j \in u .. k - 1 : ~Misaligned(j)

\* The user approved this artifact as it still was at k, from a receipt of its last writing.
Stands(stage, k) ==
  \E a \in 1 .. k - 1 :
    /\ Approves(a, stage)
    /\ \A e \in Event(a, "artifact") :
         e.stage = stage => \A j \in 1 .. a - 1 : stage \in log[j].changed => j <= e.after
    /\ \A j \in a .. k - 1 : stage \notin log[j].changed

\* A session passes only if something was built, and nothing was written or built
\* ahead of its approvals: each artifact approved as it was last written, on a design
\* and an understanding that still held, and never by a receipt that something
\* overtook (brainstorming-evidence.ts 304-336, 384-424).
PassIsApproved ==
  (\E stop \in Stops : ScoreOf(stop) = "pass") =>
    /\ \E k \in DOMAIN log : Product(log[k]) /\ log[k].success = "yes"
    /\ \A k \in DOMAIN log :
         /\ "spec_write" \in log[k].effects => Designed(k)
         /\ "plan_write" \in log[k].effects => Designed(k) /\ Stands("spec", k)
         /\ Product(log[k]) =>
              /\ Designed(k) /\ Stands("spec", k) /\ Stands("plan", k) /\ log[k].changed = {}
              /\ \E m \in 1 .. k - 1 : Event(m, "method") # {}
====
