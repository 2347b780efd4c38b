----------------------------- MODULE TutorStream ------------------------------
(***************************************************************************)
(* Questions to the tutor (frontend/src/stores/tutorStore.ts), the task    *)
(* that answers one (backend/app/services/tutor_service.py) and the        *)
(* broadcast channel between them.  Every question opens a session, and so *)
(* a channel, of its own; one flag, isStreaming, stands for all of them.   *)
(*                                                                         *)
(* Abstractions.  A text is the sequence of what was put into it: tokens,  *)
(* by their position in the answer, the answer as it was stored, or a      *)
(* Notice of a failure.  Retrieval, citations and the user's own bubble    *)
(* are left out.  _broadcast is best effort, so a message may be lost when *)
(* it is published; a channel delivers in order, and nothing before it has *)
(* joined.  unsubscribe() does not wait for removeChannel, so a channel    *)
(* that is being left may still deliver.                                   *)
(***************************************************************************)
EXTENDS Naturals, Sequences

CONSTANTS Questions,   \* bound: the questions asked, in any order
          MaxTokens    \* bound: tokens of one answer

ASSUME TutorAssumption == MaxTokens \in Nat

VARIABLES isStreaming,   \* tutorStore.isStreaming
          asked,         \* a call of sendMessage: where it stands
          bubble,        \* the assistant's message of a question
          subscription,  \* its channel in the browser
          answering,     \* its background task, and the row that leaves
          produced,      \* tokens the task has made
          channel        \* messages on the way to the browser

tutorVars == <<isStreaming, asked, bubble, subscription, answering, produced, channel>>

Notice == 0
StoredText == MaxTokens + 1
Blank == [text |-> <<>>, error |-> FALSE]
Token(i) == [event |-> "token", text |-> <<i>>, error |-> FALSE]
\* The text of an answer without tokens is empty, and so may an exception's be.
Complete(i) == [event |-> "complete", text |-> IF i = 0 THEN <<>> ELSE <<StoredText>>, error |-> FALSE]
Failure(said) == [event |-> "failure", text |-> <<>>, error |-> said]

TutorInit ==
  /\ isStreaming = FALSE
  /\ asked = [q \in Questions |-> "no"]
  /\ bubble = [q \in Questions |-> Blank]
  /\ subscription = [q \in Questions |-> "none"]
  /\ answering = [q \in Questions |-> "none"]
  /\ produced = [q \in Questions |-> 0]
  /\ channel = [q \in Questions |-> <<>>]

-----------------------------------------------------------------------------
(* The store                                                               *)

\* sendMessage as far as its await of the access token.
Send(q) ==
  /\ asked[q] = "no"
  /\ asked' = [asked EXCEPT ![q] = "token"]
  /\ UNCHANGED <<isStreaming, bubble, subscription, answering, produced, channel>>

\* The panel and the cards of the dashboard hold back while an answer streams,
AskPanel(q) == ~isStreaming /\ Send(q)
AskCard(q) == ~isStreaming /\ Send(q)
\* the inspector's and the analysis' "explain" do not.
AskExplain(q) == Send(q)

\* The bubbles, the subscription - which is not awaited - and the POST.
HaveToken(q) ==
  /\ asked[q] = "token"
  /\ asked' = [asked EXCEPT ![q] = "posting"]
  /\ isStreaming' = TRUE
  /\ subscription' = [subscription EXCEPT ![q] = "joining"]
  /\ UNCHANGED <<bubble, answering, produced, channel>>

Joined(q) ==
  /\ subscription[q] = "joining"
  /\ subscription' = [subscription EXCEPT ![q] = "joined"]
  /\ UNCHANGED <<isStreaming, asked, bubble, answering, produced, channel>>

Posted(q) ==
  /\ asked[q] = "posting" /\ answering[q] # "none"
  /\ asked' = [asked EXCEPT ![q] = "accepted"]
  /\ UNCHANGED <<isStreaming, bubble, subscription, answering, produced, channel>>

\* unsubscribe(), also a second time.
Unsubscribed(s) == IF s = "closed" THEN s ELSE "leaving"

\* The request was refused, or its response is lost.
PostFailed(q) ==
  /\ asked[q] = "posting"
  /\ asked' = [asked EXCEPT ![q] = "failed"]
  /\ isStreaming' = FALSE
  /\ bubble' = [bubble EXCEPT ![q] = IF @.text = <<>> THEN [text |-> <<Notice>>, error |-> TRUE] ELSE @]
  /\ subscription' = [subscription EXCEPT ![q] = Unsubscribed(@)]
  /\ UNCHANGED <<answering, produced, channel>>

\* removeChannel is through.
Left(q) ==
  /\ subscription[q] = "leaving"
  /\ subscription' = [subscription EXCEPT ![q] = "closed"]
  /\ UNCHANGED <<isStreaming, asked, bubble, answering, produced, channel>>

\* onComplete's new bubble: payload.content ?? m.content.
MCompleted(b, m) ==
  IF m.error /\ b.text = <<>> THEN [text |-> <<Notice>>, error |-> TRUE]
  ELSE IF b.text # <<>> THEN b
  ELSE [b EXCEPT !.text = m.text]
Completed(b, m) ==
  IF m.error /\ b.text = <<>> THEN [text |-> <<Notice>>, error |-> TRUE]
  ELSE IF m.event = "failure" THEN b
  ELSE [b EXCEPT !.text = m.text]

\* A message reaches the browser, which hears it as long as the channel is there.
Deliver(q) ==
  /\ channel[q] # <<>>
  /\ LET m == Head(channel[q]) IN
     IF subscription[q] \notin {"joined", "leaving"} THEN UNCHANGED <<isStreaming, bubble, subscription>>
     ELSE IF m.event = "token"
     THEN /\ bubble' = [bubble EXCEPT ![q].text = @ \o m.text]
          /\ UNCHANGED <<isStreaming, subscription>>
     ELSE /\ bubble' = [bubble EXCEPT ![q] = Completed(@, m)]
          /\ isStreaming' = FALSE
          /\ subscription' = [subscription EXCEPT ![q] = Unsubscribed(@)]
  /\ channel' = [channel EXCEPT ![q] = Tail(@)]
  /\ UNCHANGED <<asked, answering, produced>>

-----------------------------------------------------------------------------
(* The background task                                                     *)

\* publish_tutor_token and publish_tutor_complete.
PublishTutor(q, m) == \E lost \in BOOLEAN : channel' = [channel EXCEPT ![q] = IF lost THEN @ ELSE Append(@, m)]

\* start_message commits the question, and the task starts; the browser may
\* have given the request up.
Start(q) ==
  /\ asked[q] \in {"posting", "failed"} /\ answering[q] = "none"
  /\ answering' = [answering EXCEPT ![q] = "running"]
  /\ UNCHANGED <<isStreaming, asked, bubble, subscription, produced, channel>>

Produce(q) ==
  /\ answering[q] = "running" /\ produced[q] < MaxTokens
  /\ produced' = [produced EXCEPT ![q] = @ + 1]
  /\ PublishTutor(q, Token(produced'[q]))
  /\ UNCHANGED <<isStreaming, asked, bubble, subscription, answering>>

\* The answer is committed, then announced.
Finish(q) ==
  /\ answering[q] = "running"
  /\ answering' = [answering EXCEPT ![q] = "stored"]
  /\ PublishTutor(q, Complete(produced[q]))
  /\ UNCHANGED <<isStreaming, asked, bubble, subscription, produced>>

\* Retrieval, the model or the commit fails, possibly without a text.
Fail(q) ==
  /\ answering[q] = "running"
  /\ answering' = [answering EXCEPT ![q] = "failed"]
  /\ \E said \in BOOLEAN : PublishTutor(q, Failure(said))
  /\ UNCHANGED <<isStreaming, asked, bubble, subscription, produced>>

\* The process stops, and nobody takes the task up again.
Die(q) ==
  /\ answering[q] = "running"
  /\ answering' = [answering EXCEPT ![q] = "dead"]
  /\ UNCHANGED <<isStreaming, asked, bubble, subscription, produced, channel>>

TutorNext ==
  \E q \in Questions :
    \/ AskPanel(q) \/ AskCard(q) \/ AskExplain(q) \/ HaveToken(q) \/ Joined(q) \/ Posted(q) \/ PostFailed(q)
    \/ Left(q) \/ Deliver(q)
    \/ Start(q) \/ Produce(q) \/ Finish(q) \/ Fail(q) \/ Die(q)

TutorSpec == TutorInit /\ [][TutorNext]_tutorVars

-----------------------------------------------------------------------------
(* Properties                                                              *)

Listening(q) == subscription[q] \in {"joining", "joined"}
Shut(q) == subscription[q] \in {"leaving", "closed"}

\* tutorStore.ts:54-59, 64-86 and 100-112: a bubble whose channel was given up, and
\* which nobody will look after again, shows the answer as it was stored, whatever
\* tokens were lost on the way - marked as an error only if its request had failed;
\* or is marked and shows a notice, behind which tokens that came too late may stand
\* if the request failed; or its request or its task failed: then it keeps the
\* tokens it had, or stays blank when the failure had no text.
ClosedBubblesAreAccounted ==
  \A q \in Questions : Shut(q) =>
    LET b == bubble[q] IN
    \/ b.text = Complete(produced[q]).text /\ answering[q] = "stored" /\ (b.error => asked[q] = "failed")
    \/ /\ b.error /\ b.text # <<>> /\ Head(b.text) = Notice
       /\ asked[q] = "failed" \/ (b.text = <<Notice>> /\ answering[q] = "failed")
    \/ ~b.error /\ answering[q] = "failed"
    \/ ~b.error /\ asked[q] = "failed" /\ b.text # <<>>

\* tutorStore.ts:44, 67 and 103: while the flag keeps the panel's input
\* disabled, some question still listens for its answer.
StreamingHasQuestion ==
  isStreaming => \E q \in Questions : Listening(q)

\* What the panel shows of the tutor, at rest and while it waits, holds of the
\* questions behind it.
TutorIsAccounted == ClosedBubblesAreAccounted /\ StreamingHasQuestion

-----------------------------------------------------------------------------
(* What the code does not keep                                             *)

\* tutorStore.ts:67: the converse fails, as any answer clears the flag of all.
FlagStandsForAll ==
  (\E q \in Questions : Listening(q)) => isStreaming

\* tutorStore.ts:70, "instead of leaving a blank bubble": an exception without
\* a text does leave one.
NoBlankBubble ==
  \A q \in Questions :
    Shut(q) /\ answering[q] = "failed" => bubble[q].text # <<>>

\* tutorStore.ts:80: an answer that broke off is marked.
BrokenAnswersAreMarked ==
  \A q \in Questions : Shut(q) /\ answering[q] = "failed" => bubble[q].error

\* tutorStore.ts:54 and 85: when only the response was lost, the task goes on, and
\* what it sends to a channel that is being left is added to the notice or put in
\* its place: an error that shows tokens, or the whole answer.
ErrorsAreNotices == \A q \in Questions : bubble[q].error => bubble[q].text = <<Notice>>
===============================================================================
