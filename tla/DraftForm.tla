------------------------------- MODULE DraftForm -------------------------------
(***************************************************************************)
(* IntelligenceAnalysisForm and the AI draft it streams: the API's         *)
(* streamDraft (one SSE message per chunk of model text, then the          *)
(* validated draft as a `result` event, or an `error` event), the          *)
(* connection, streamSse's buffer, and the form that applies the draft     *)
(* while the user edits and submits.                                       *)
(*                                                                         *)
(* The wire is a sequence of tokens: a message is its text, one token, and *)
(* the two newlines that end it.  The reader is handed tokens in pieces    *)
(* cut anywhere, a boundary included.  What the API's write, one piece     *)
(* read, or one event handled changes is one step; the user acts between.  *)
(***************************************************************************)
EXTENDS Integers, Sequences, SequencesExt

CONSTANTS MaxChunks     \* bound on the chunks of one draft

ASSUME DraftBounds == MaxChunks \in Nat

VARIABLES
    configured,     \* API: ANTHROPIC_API_KEY is set
    stream,         \* API: "none", "open", or how it ended for the reader
    wire,           \* tokens written and not read
    sent,           \* history: the events the API wrote
    aiAvailable,    \* form: the "Draft with AI" button is shown
    field,          \* form: who wrote each field
    isAiDraft,      \* form: the notice "this draft was generated by AI"
    drafting, submitting, error,
    gotResult,      \* handleGenerateDraft's local
    buffer,         \* streamSse's local
    delivered       \* history: the events handed to the form

apiSide == <<configured, stream, wire, sent>>
inputs == <<field, isAiDraft>>
attempt == <<drafting, error, gotResult, buffer, delivered>>
draftVars == <<apiSide, aiAvailable, inputs, submitting, attempt>>

\* Fields of each kind: a required text, an optional list, and the one that has
\* a value from the start and is not reset.
Fields == {"situationSummary", "criticalRisks", "impactLevel"}
Required == {"situationSummary"}
Untouched == [f \in Fields |-> "initial"]

Event == ({"chunk"} \X (1..MaxChunks)) \cup ({"result", "error"} \X {0})
Newline == <<"newline", 0>>

DraftTypeOK ==
    /\ configured \in BOOLEAN
    /\ stream \in {"none", "open", "complete", "broken"}
    /\ wire \in Seq(Event \cup {Newline}) /\ buffer \in Seq(Event \cup {Newline})
    /\ sent \in Seq(Event) /\ delivered \in Seq(Event)
    /\ field \in [Fields -> {"initial", "human", "ai"}]
    /\ {aiAvailable, isAiDraft, drafting, submitting, error, gotResult} \subseteq BOOLEAN

------------------------------------------------------------------------------
\* The API.  Without a key the request fails with a 503 before it streams.
Write(e) ==
    /\ wire' = wire \o <<e, Newline, Newline>>
    /\ sent' = Append(sent, e)

Redeploy ==
    /\ configured' = ~configured
    /\ UNCHANGED <<stream, wire, sent, aiAvailable, inputs, submitting, attempt>>

StreamChunk ==
    /\ stream = "open"
    /\ Len(sent) < MaxChunks
    /\ Write(<<"chunk", Len(sent) + 1>>)
    /\ UNCHANGED <<configured, stream, aiAvailable, inputs, submitting, attempt>>

\* The text is parsed and validated: the draft, or an error; also an error of
\* the model or of the incident's lookup, at any time.
StreamEnds ==
    /\ stream = "open"
    /\ \E e \in {"result", "error"} : Write(<<e, 0>>)
    /\ stream' = "complete"
    /\ UNCHANGED <<configured, aiAvailable, inputs, submitting, attempt>>

\* The connection is lost, with part of what was written: the read fails; or
\* something between closes it as if it were complete.
Disconnect ==
    /\ stream = "open" \/ (stream = "complete" /\ wire # <<>>)
    /\ \E n \in 0..Len(wire) : wire' = SubSeq(wire, 1, n)
    /\ stream' \in {"complete", "broken"}
    /\ UNCHANGED <<configured, sent, aiAvailable, inputs, submitting, attempt>>

------------------------------------------------------------------------------
\* The form asks once, when it mounts, whether to show the button.
AskStatus ==
    /\ ~aiAvailable /\ configured
    /\ aiAvailable' = TRUE
    /\ UNCHANGED <<apiSide, inputs, submitting, attempt>>

\* handleGenerateDraft and the request it sends.
GenerateDraft ==
    /\ aiAvailable /\ ~drafting
    /\ gotResult' = FALSE /\ buffer' = <<>> /\ delivered' = <<>>
    /\ wire' = <<>> /\ sent' = <<>>
    /\ \/ configured /\ stream' = "open" /\ drafting' = TRUE /\ error' = FALSE
       \/ stream' = "none" /\ drafting' = FALSE /\ error' = TRUE
    /\ UNCHANGED <<configured, aiAvailable, inputs, submitting>>

\* The first place where two newlines follow each other; 0 when there is none.
Boundary(b) ==
    LET at == {k \in 1..(Len(b) - 1) : b[k] = Newline /\ b[k + 1] = Newline}
    IN  IF at = {} THEN 0 ELSE CHOOSE k \in at : \A l \in at : k <= l

\* Faulty variant: what was left of the last piece is not kept.
AppendedFresh(piece) == piece

Appended(piece) == buffer \o piece

\* reader.read(): a piece of any length.
Read ==
    /\ drafting /\ Boundary(buffer) = 0
    /\ \E n \in 1..Len(wire) :
          /\ buffer' = Appended(SubSeq(wire, 1, n))
          /\ wire' = SubSeq(wire, n + 1, Len(wire))
    /\ UNCHANGED <<configured, stream, sent, aiAvailable, inputs, submitting,
                   drafting, error, gotResult, delivered>>

\* parseSseBlock: the event a block holds, its last data; one without holds none.
Parsed(block) ==
    LET data == {k \in 1..Len(block) : block[k] # Newline}
    IN  IF data = {} THEN <<>>
        ELSE <<block[CHOOSE k \in data : \A l \in data : l <= k]>>

Quit(failed) == drafting' = FALSE /\ error' = (error \/ failed)

\* applyDraft: every field of the form, edited or not.
ApplyDraft == field' = [f \in Fields |-> "ai"] /\ isAiDraft' = TRUE

\* One event is yielded to the form.
Yield ==
    LET k == Boundary(buffer)
        events == Parsed(SubSeq(buffer, 1, k - 1))
        kind == Last(events)[1]
    IN  /\ drafting /\ k > 0
        /\ buffer' = SubSeq(buffer, k + 2, Len(buffer))
        /\ delivered' = delivered \o events
        /\ \/ events = <<>> /\ UNCHANGED <<inputs, drafting, error, gotResult>>
           \/ /\ events # <<>> /\ kind = "chunk"
              /\ UNCHANGED <<inputs, drafting, error, gotResult>>
           \/ /\ events # <<>> /\ kind = "result"
              /\ ApplyDraft /\ gotResult' = TRUE /\ UNCHANGED <<drafting, error>>
           \/ /\ events # <<>> /\ kind = "error"
              /\ Quit(TRUE) /\ UNCHANGED <<inputs, gotResult>>
        /\ UNCHANGED <<apiSide, aiAvailable, submitting>>

\* Faulty variant: a stream that ends is taken for a draft that ends.
MissingDraft == FALSE

\* done: what is left in the buffer is dropped.
MissingResult == ~gotResult

StreamDone ==
    /\ drafting /\ Boundary(buffer) = 0 /\ wire = <<>>
    /\ stream \in {"complete", "broken"}
    /\ Quit(IF stream = "broken" THEN TRUE ELSE MissingResult)
    /\ UNCHANGED <<apiSide, aiAvailable, inputs, submitting, gotResult, buffer, delivered>>

------------------------------------------------------------------------------
\* The user edits, also while a draft streams or a submission is on its way.
Edit(f) ==
    /\ field[f] # "human"
    /\ field' = [field EXCEPT ![f] = "human"]
    /\ UNCHANGED <<apiSide, aiAvailable, isAiDraft, submitting, attempt>>

\* Faulty variant: the notice goes when the submission starts.
SubmitFormUnlabelled ==
    /\ ~submitting /\ \A f \in Required : field[f] # "initial"
    /\ submitting' = TRUE /\ error' = FALSE /\ isAiDraft' = FALSE
    /\ UNCHANGED <<apiSide, aiAvailable, field, drafting, gotResult, buffer, delivered>>

SubmitForm ==
    /\ ~submitting /\ \A f \in Required : field[f] # "initial"
    /\ submitting' = TRUE /\ error' = FALSE
    /\ UNCHANGED <<apiSide, aiAvailable, inputs, drafting, gotResult, buffer, delivered>>

\* Success resets the notice and every field but the impact level, whatever
\* they hold by now; failure leaves them.
Submitted ==
    /\ submitting /\ submitting' = FALSE
    /\ \/ /\ field' = [Untouched EXCEPT !["impactLevel"] = field["impactLevel"]]
          /\ isAiDraft' = FALSE
          /\ UNCHANGED error
       \/ error' = TRUE /\ UNCHANGED inputs
    /\ UNCHANGED <<apiSide, aiAvailable, drafting, gotResult, buffer, delivered>>

\* Another tab or incident: the form is gone; nobody reads the stream.
Remount ==
    /\ aiAvailable' = FALSE /\ field' = Untouched /\ isAiDraft' = FALSE
    /\ drafting' = FALSE /\ submitting' = FALSE /\ error' = FALSE
    /\ gotResult' = FALSE /\ buffer' = <<>> /\ delivered' = <<>>
    /\ stream' = "none" /\ wire' = <<>> /\ sent' = <<>>
    /\ UNCHANGED configured

------------------------------------------------------------------------------
DraftInit ==
    /\ configured \in BOOLEAN
    /\ stream = "none" /\ wire = <<>> /\ sent = <<>>
    /\ aiAvailable = FALSE /\ field = Untouched /\ isAiDraft = FALSE
    /\ drafting = FALSE /\ submitting = FALSE /\ error = FALSE
    /\ gotResult = FALSE /\ buffer = <<>> /\ delivered = <<>>

DraftStays ==
    \/ Redeploy \/ StreamChunk \/ StreamEnds \/ Disconnect
    \/ AskStatus \/ GenerateDraft \/ Read \/ Yield \/ StreamDone
    \/ (\E f \in Fields : Edit(f)) \/ SubmitForm \/ Submitted

DraftNext == DraftStays \/ Remount

DraftSpec == DraftInit /\ [][DraftNext]_draftVars

------------------------------------------------------------------------------
\* Text the model wrote is never on the form without the notice that says so,
\* however drafting, editing and submitting interleave.  (The impact level is
\* the exception: it survives the reset.)
AiLabelled ==
    (\E f \in Fields \ {"impactLevel"} : field[f] = "ai") => isAiDraft

\* However the network cuts the stream, the form is handed the events the API
\* wrote, in their order, none lost, merged or made up.
EventsInOrder == IsPrefix(delivered, sent)

\* Drafting that ends without an error message has applied the whole draft: a
\* stream that stops early is never taken for a finished one.
DraftEndsKnown ==
    [][drafting /\ ~drafting' /\ ~error' =>
          \/ delivered' = sent /\ sent # <<>> /\ Last(sent)[1] = "result"
          \/ Remount]_draftVars

=============================================================================
