--------------------------- MODULE TriggerResearch ---------------------------
(***************************************************************************)
(* One piece of research after another (narrative/research_runtime.py):    *)
(* from a trigger - a post of an actor on X, a message on Telegram, a      *)
(* signal of DeBot or a market anomaly - over the verification of the      *)
(* posts it names, Grok's search and the structuring of its answer, and    *)
(* the verification of each status Grok points at, to a package in the     *)
(* research store.  Every verification fetches the post anew, and its      *)
(* author may edit or delete it between any two of them.                   *)
(***************************************************************************)
EXTENDS Naturals, Sequences, FiniteSets

CONSTANTS XPosts,      \* statuses of X
          Spellings,   \* the ways to write the URL of a status, whatever the case
          Messages,    \* messages on Telegram
          Binders,     \* posts whose author may bind a token to a narrative
          Attempts,    \* attempts of the search: GrokRequestPolicy
          MaxHints,    \* max_statuses of verify_trigger_hints
          MaxLeads,    \* max_candidate_statuses
          MaxRewrites, \* bound on texts that edits bring, and deletions
          MaxResearch  \* bound on pieces of research

ASSUME ResearchAssumption ==
  /\ Attempts \in 1..5 /\ MaxHints \in Nat \ {0} /\ MaxLeads \in Nat
  /\ MaxRewrites \in Nat /\ MaxResearch \in Nat

VARIABLES wall,      \* what each post says now
          everShown, \* what any post ever said
          job,       \* the piece of research under way
          begun,     \* pieces of research so far
          library    \* the packages in the store

researchVars == <<wall, everShown, job, begun, library>>

Posts == XPosts \cup Messages

\* The same status may be linked under another host, or with a query.
Urls == XPosts \X Spellings

\* A text mentions the narrative or not, and then names the token's address or not;
\* it may also name it to deny it.
Wordings == {"silent", "story", "names", "denies"}
Gone == "gone"

\* narrative_key of a brief: the narrative, another one, or Grok does not know.
Keys == {"narrative", "another", "unknown"}

\* Readings: a post with the text it had when it was fetched.
NoAnswer == [cited |-> {}, mentioned |-> {}]

\* What the response of a search is parsed to: statuses among its sources and
\* citations, and others in its text.
Answers == [cited : SUBSET XPosts, mentioned : SUBSET XPosts]

NoTrigger == [mode |-> "none", post |-> "none", text |-> "silent", hints |-> {}, early |-> FALSE]
IdleJob == [step |-> "idle", trigger |-> NoTrigger, left |-> {}, seeds |-> <<>>, tries |-> 0, answer |-> NoAnswer,
           key |-> "unknown", events |-> {}, verified |-> {}, failed |-> {}]

Active(trigger) == trigger.mode \in {"ACTIVE_ACTOR", "ACTIVE_TELEGRAM"}

\* Posts that are of the narrative at first, and may name the token.
ResearchInit ==
  /\ wall \in [Posts -> {"story", "names"}]
  /\ everShown = {<<p, wall[p]>> : p \in Posts}
  /\ job = IdleJob /\ begun = 0 /\ library = {}

\* An author, between any two steps.
EditPost ==
  /\ Cardinality(everShown) < Cardinality(Posts) + MaxRewrites
  /\ \E p \in Posts, text \in Wordings \cup {Gone} :
       /\ wall[p] # Gone /\ wall[p] # text
       /\ wall' = [wall EXCEPT ![p] = text]
       /\ everShown' = everShown \cup {<<p, text>>}
  /\ UNCHANGED <<job, begun, library>>

-----------------------------------------------------------------------------

\* The triggers: a post with its text when it was collected, from a clock that may
\* be ahead of ours; a signal with the links of its token, which differ as texts; an
\* anomaly with none.
Triggers ==
  {t \in [mode : {"ACTIVE_ACTOR", "ACTIVE_TELEGRAM"}, post : Posts, text : Wordings, hints : {{}}, early : BOOLEAN] :
     t.text = wall[t.post] /\ (t.mode = "ACTIVE_ACTOR" <=> t.post \in XPosts)}
  \cup {[NoTrigger EXCEPT !.mode = "PASSIVE_DEBOT", !.hints = hints] : hints \in SUBSET Urls}
  \cup {[NoTrigger EXCEPT !.mode = "PASSIVE_MARKET"]}

Begin ==
  /\ job.step = "idle" /\ begun < MaxResearch
  /\ begun' = begun + 1
  /\ \E t \in Triggers :
       job' = [IdleJob EXCEPT !.step = IF Active(t) THEN "verify" ELSE IF t.hints = {} THEN "search" ELSE "hints",
                            !.trigger = t, !.left = t.hints]
  /\ UNCHANGED <<wall, everShown, library>>

\* store.append of a package; one of a trigger that lies ahead cannot be made, and the
\* job fails.
Package(status, reason, events, verified, failed) ==
  /\ job' = IdleJob
  /\ library' = IF job.trigger.early THEN library
                ELSE library \cup {[trigger |-> job.trigger, status |-> status, reason |-> reason, events |-> events,
                                    verified |-> verified, failed |-> failed]}
  /\ UNCHANGED <<wall, everShown, begun>>

\* A WAIT that names nothing it verified.
Wait(reason) == Package("WAIT", reason, {}, {}, {})

Proceed(next) == job' = next /\ UNCHANGED <<wall, everShown, begun, library>>

\* An exception that nothing expects, such as a fetch that fails: the job fails, but
\* poll_active packages the failure.
Break ==
  \/ job' = IdleJob /\ UNCHANGED <<wall, everShown, begun, library>>
  \/ job.trigger.mode = "ACTIVE_ACTOR" /\ Wait("runtime_research_failed")

\* The verification of an active trigger, whose text must be what was collected.
SlipSame(text, collected) == text # Gone

Same(text, collected) == text = collected

VerifyTrigger ==
  LET p == job.trigger.post
  IN  /\ job.step = "verify"
      /\ \/ Wait("trigger_unverified") \* not its author, or not a registered one
         \/ Break
         \/ /\ wall[p] # Gone
            /\ IF Same(wall[p], job.trigger.text)
               THEN Proceed([job EXCEPT !.step = "search", !.seeds = <<<<p, wall[p]>>>>])
               ELSE Wait("trigger_content_mismatch")

\* The links of a passive trigger, each fetched once, and so a status once for each
\* way it is written, until enough are verified; what fails is noted.
VerifyHint ==
  /\ job.step = "hints"
  /\ \E url \in job.left :
       LET p == url[1]
           After(seeds) ==
             LET rest == IF Len(seeds) < MaxHints THEN job.left \ {url} ELSE {}
             IN  [job EXCEPT !.seeds = seeds, !.left = rest, !.step = IF rest = {} THEN "search" ELSE "hints"]
       IN  \/ Proceed([After(job.seeds) EXCEPT !.failed = @ \cup {p}])
           \/ wall[p] # Gone /\ Proceed(After(Append(job.seeds, <<p, wall[p]>>)))

-----------------------------------------------------------------------------

\* search_x: an answer cites statuses as sources and mentions others in its text.  A
\* failure that may pass is tried again, as often as the policy allows.
Search ==
  /\ job.step = "search"
  /\ \/ \E answer \in Answers : Proceed([job EXCEPT !.step = "format", !.answer = answer])
     \/ job.tries + 1 < Attempts /\ Proceed([job EXCEPT !.tries = @ + 1])
     \/ Wait("grok_search_failed")

\* What the formatter can return; a carrier status that is none is a typing error.
Outputs ==
  [echo : BOOLEAN, json : BOOLEAN, directs : BOOLEAN, key : Keys,
   status : {"no_ca", "leaders_aligned", "leaders_split", "unknown", "typo"},
   leaders : {"none", "same", "distinct"}]

\* GrokNarrativeBrief and the checks of its parser.
Parses(out) ==
  /\ out.json /\ ~out.directs /\ out.status # "typo"
  /\ out.status = "no_ca" => out.leaders = "none"
  /\ out.status = "leaders_aligned" => out.leaders = "same"
  /\ out.status = "leaders_split" => out.leaders = "distinct"

\* normalize_formatter_enums
Normalized(out) == IF out.status = "typo" THEN [out EXCEPT !.status = "unknown"] ELSE out

\* The rest of search_narrative_brief: an error, or the key of the brief.
FormatError(out) ==
  IF out.echo THEN "grok_template_echo"
  ELSE IF ~Parses(out) /\ ~Parses(Normalized(out)) THEN "grok_brief_invalid"
  ELSE IF out.key = "unknown" THEN "grok_narrative_unknown"
  ELSE "none"

Formatted ==
  {[error |-> "grok_format_failed", key |-> "unknown"]}
  \cup {[error |-> FormatError(out), key |-> IF FormatError(out) = "none" THEN out.key ELSE "unknown"] : out \in Outputs}

\* extract_x_status_leads: every status an active trigger's answer names; DeBot and
\* the market only follow what Grok cites.
Leads(answer) ==
  IF Active(job.trigger) THEN answer.cited \cup answer.mentioned ELSE answer.cited

\* The first of them, twelve in the code, without what has been read already.
First(answer) ==
  {first \in SUBSET Leads(answer) :
     Cardinality(first) = IF Cardinality(Leads(answer)) < MaxLeads THEN Cardinality(Leads(answer)) ELSE MaxLeads}

SeedPosts(seeds) == {seeds[n][1] : n \in DOMAIN seeds}

SlipUnread(first) == first

Unread(first) == first \ SeedPosts(job.seeds)

\* derive_event_semantics of a reading under the key of the brief: a denial, or one
\* event of the story and one that binds the token if the text names it and the
\* author may.
ReadingEvents(readings, key) ==
  LET With(kind, some) == {[reading |-> r, kind |-> kind] : r \in some}
  IN  IF key # "narrative" THEN {}
      ELSE With("counter_evidence", {r \in readings : r[2] = "denies"})
           \cup With("story", {r \in readings : r[2] \in {"story", "names"}})
           \cup With("token_binding", {r \in readings : r[2] = "names" /\ r[1] \in Binders})

\* The events of the statuses read before the search: an event is known by its status
\* and its kind, and a later reading's takes the place of an earlier one's.
SeedEvents(seeds, key) ==
  LET Of(n) == ReadingEvents({seeds[n]}, key)
      Replaced(n, e) == \E m \in DOMAIN seeds :
                          m > n /\ seeds[m][1] = seeds[n][1] /\ \E f \in Of(m) : f.kind = e.kind
  IN  UNION {{e \in Of(n) : ~Replaced(n, e)} : n \in DOMAIN seeds}

\* Before the verification of leads: an active trigger on X needs leads, and each
\* active one must itself speak of the narrative.  The answer is not looked at again.
Format ==
  /\ job.step = "format"
  /\ \E f \in Formatted :
       IF f.error # "none" THEN Wait(f.error)
       ELSE IF job.trigger.mode = "ACTIVE_ACTOR" /\ job.answer.cited \cup job.answer.mentioned = {}
            THEN Wait("grok_returned_no_verifiable_x_status")
       ELSE IF Active(job.trigger) /\ SeedEvents(job.seeds, f.key) = {}
            THEN Wait("trigger_does_not_support_narrative_key")
       ELSE \E first \in First(job.answer) :
              Proceed([job EXCEPT !.step = "leads", !.key = f.key, !.left = Unread(first),
                                  !.answer = NoAnswer, !.tries = 0,
                                  !.verified = SeedPosts(job.seeds),
                                  !.events = SeedEvents(job.seeds, f.key)])

\* A lead without an event of the narrative has failed; one that cannot be fetched
\* fails a passive trigger's lead, and an active trigger's whole research.
VerifyLead ==
  /\ job.step = "leads"
  /\ \E p \in job.left :
       LET after == [job EXCEPT !.left = @ \ {p}]
           found == ReadingEvents({<<p, wall[p]>>}, job.key)
       IN  \/ Proceed([after EXCEPT !.failed = @ \cup {p}])
           \/ Active(job.trigger) /\ Break
           \/ wall[p] # Gone /\ found # {} /\ Proceed([after EXCEPT !.events = @ \cup found, !.verified = @ \cup {p}])

\* The end of investigate_passive_trigger: nothing without events, nothing without
\* one that has the trigger's address, which a denial of it has too.
CarriesToken(events) == \E e \in events : e.kind \in {"token_binding", "counter_evidence"}

Conclude ==
  /\ job.step = "leads" /\ job.left = {}
  /\ LET Report(status, reason, events) == Package(status, reason, events, job.verified, job.failed)
     IN  IF Active(job.trigger) THEN Report("READY", "verified_narrative_package", job.events)
         ELSE IF job.events = {} THEN Report("WAIT", "no_verified_narrative_evidence", {})
         ELSE IF ~CarriesToken(job.events) THEN Report("WAIT", "verified_narrative_found_trigger_ca_unbound", {})
         ELSE Report("EVIDENCE_FOUND", "verified_narrative_evidence_found", job.events)

ResearchNext ==
  EditPost \/ Begin \/ VerifyTrigger \/ VerifyHint \/ Search \/ Format \/ VerifyLead \/ Conclude

-----------------------------------------------------------------------------

\* The trigger links the post under two URLs.
LinkedTwice(trigger, post) == \E k, l \in trigger.hints : k # l /\ k[1] = post /\ l[1] = post

\* What a package presents as evidence was really published, by posts that were
\* fetched for it: a package that is READY holds the trigger as it was collected,
\* one that found evidence holds a post that binds or denies the token, and one that
\* WAITs holds nothing ("WAIT cannot expose verified narrative events",
\* passive_trigger.py:155).  One that was read and is then pointed at by Grok is not
\* read again after its author edited it: two texts of a post are in a package only
\* when the trigger links it twice (passive_hints.py:47), and then in events of
\* different kinds.
EvidenceIsVerified ==
  \A p \in library :
    /\ \A e \in p.events : e.reading \in everShown /\ e.reading[1] \in p.verified /\ e.reading[2] \notin {"silent", Gone}
    /\ p.status = "READY" => \E e \in p.events : e.reading = <<p.trigger.post, p.trigger.text>>
    /\ p.status = "EVIDENCE_FOUND" => \E e \in p.events :
         e.reading[2] = "denies" \/ (e.reading[2] = "names" /\ e.reading[1] \in Binders)
    /\ p.status = "WAIT" => p.events = {}
    /\ \A e, f \in p.events : e.reading[1] = f.reading[1] /\ e.reading # f.reading =>
         e.kind # f.kind /\ LinkedTwice(p.trigger, e.reading[1])
=============================================================================
