------------------------------- MODULE Watch --------------------------------
(***************************************************************************)
(* One request of the keys handler (etcdhttp/client.go,                  *)
(* keysHandler.ServeHTTP, writeKeyEvent and handleKeyWatch)               *)
(* against the store's watcher hub, which is not part of this repository  *)
(* and is modelled from spec.md 4.4: the hub queues each matching event   *)
(* on the watcher's buffered channel and, when the buffer is full, drops  *)
(* the watcher and closes the channel (the back-pressure policy).         *)
(*                                                                         *)
(* The handler parses the request, checks access, calls server.Do and    *)
(* writes the event it returns, or, for a watch, writes its headers and   *)
(* loops on a select over the                                             *)
(* client's close notification, the watch deadline and the event channel. *)
(* Go's select picks any ready case, so each case is an action of its own.*)
(* Every return runs the deferred wa.Remove().                             *)
(***************************************************************************)
EXTENDS Naturals, Sequences

CONSTANTS
  ChanCap,    \* capacity of the watcher's event channel
  MaxEvents   \* store changes matching the watched key, after registration

ASSUME ChanCap \in Nat \ {0}
ASSUME MaxEvents \in Nat

VARIABLES
  wait,         \* the request's wait flag (rr.Wait): server.Do returns a watcher
  stage,        \* the subscription: registered, streaming or a terminal stage
  stream,       \* the request's stream flag (rr.Stream)
  registered,   \* the watcher is in the hub and receives events
  chan,         \* events queued on the watcher's channel (wa.EventChan())
  chanClosed,   \* the channel has been closed by the hub
  produced,     \* matching store changes so far; event i has index i
  sent,         \* events encoded to the client, in order
  clientClosed, \* the client's CloseNotify channel has fired
  deadline      \* the defaultWatchTimeout context is done

vars == <<wait, stage, stream, registered, chan, chanClosed, produced, sent,
          clientClosed, deadline>>

Terminal == {"completed", "cancelled", "overrun", "failed",
             "badRequest", "noAuth", "doError", "responded"}

\* Stages before server.Do has answered: no watcher, no watch context yet.
PreWatch == {"received", "authorizing", "doing"}

-----------------------------------------------------------------------------
(* The store's watcher hub (spec 4.4). *)

\* Fault variant: an event that does not fit is dropped and the watcher kept.
NotifyDropsSilently ==
  /\ stage \notin PreWatch
  /\ produced < MaxEvents
  /\ produced' = produced + 1
  /\ IF registered /\ Len(chan) < ChanCap
       THEN chan' = Append(chan, produced + 1)
       ELSE UNCHANGED chan
  /\ UNCHANGED <<wait, stage, stream, registered, chanClosed, sent, clientClosed, deadline>>

\* The hub notifies the watcher of the next matching change.  A full
\* channel means the client is not keeping up: the hub removes the watcher
\* and closes its channel.  A watcher no longer in the hub gets nothing.
Notify ==
  /\ stage \notin PreWatch
  /\ produced < MaxEvents
  /\ produced' = produced + 1
  /\ IF registered /\ Len(chan) < ChanCap
       THEN /\ chan' = Append(chan, produced + 1)
            /\ UNCHANGED <<registered, chanClosed>>
     ELSE IF registered
       THEN /\ registered' = FALSE
            /\ chanClosed' = TRUE
            /\ UNCHANGED <<chan>>
     ELSE UNCHANGED <<registered, chan, chanClosed>>
  /\ UNCHANGED <<wait, stage, stream, sent, clientClosed, deadline>>

\* watcher.Remove(): take the watcher out of the hub and close its channel.
Remove ==
  /\ registered' = FALSE
  /\ chanClosed' = TRUE

-----------------------------------------------------------------------------
(* handleKeyWatch and the watch branch of keysHandler.ServeHTTP. *)

\* allowMethod has passed and the request is read.
Init ==
  /\ wait \in BOOLEAN
  /\ stage = "received"
  /\ stream \in BOOLEAN
  /\ registered = FALSE
  /\ chan = << >>
  /\ chanClosed = FALSE
  /\ produced = 0
  /\ sent = << >>
  /\ clientClosed = FALSE
  /\ deadline = FALSE

\* parseKeyRequest (module Translator); an error is written by
\* writeKeyError.
Parse ==
  /\ stage = "received"
  /\ stage' \in {"authorizing", "badRequest"}
  /\ UNCHANGED <<wait, stream, registered, chan, chanClosed, produced,
                 sent, clientClosed, deadline>>

\* hasKeyPrefixAccess (module Auth); a denial is writeKeyNoAuth.
Authorize ==
  /\ stage = "authorizing"
  /\ stage' \in {"doing", "noAuth"}
  /\ UNCHANGED <<wait, stream, registered, chan, chanClosed, produced,
                 sent, clientClosed, deadline>>

\* server.Do under the handler's timeout context: an error (a store
\* error, ErrTimeout, or a response with neither Event nor Watcher) is
\* writeKeyError; a wait request gets a watcher registered in the hub,
\* whose channel already holds the historic event when waitIndex lies in
\* the store's event history; any other request gets its event.
Do ==
  /\ stage = "doing"
  /\ \/ stage' = "doError" /\ UNCHANGED <<registered, chan>>
     \/ /\ wait
        /\ stage' = "registered" /\ registered' = TRUE
        /\ chan' \in {<< >>, <<0>>}
     \/ ~wait /\ stage' = "event" /\ UNCHANGED <<registered, chan>>
  /\ UNCHANGED <<wait, stream, chanClosed, produced, sent, clientClosed, deadline>>

\* writeKeyEvent: headers, 201 for a created node, the event trimmed of
\* the store prefix.
WriteKeyEvent ==
  /\ stage = "event"
  /\ stage' = "responded"
  /\ UNCHANGED <<wait, stream, registered, chan, chanClosed, produced,
                 sent, clientClosed, deadline>>

\* Headers (X-Etcd-Index from wa.StartIndex()) are written and flushed.
WriteHeaders ==
  /\ stage = "registered"
  /\ stage' = "streaming"
  /\ UNCHANGED <<wait, stream, registered, chan, chanClosed, produced,
                 sent, clientClosed, deadline>>

\* The client goes away; net/http fires CloseNotify.
ClientClose ==
  /\ ~clientClosed
  /\ clientClosed' = TRUE
  /\ UNCHANGED <<wait, stage, stream, registered, chan, chanClosed, produced,
                 sent, deadline>>

\* The context.WithTimeout(defaultWatchTimeout) deadline passes.
DeadlineExpires ==
  /\ stage \notin PreWatch
  /\ ~deadline
  /\ deadline' = TRUE
  /\ UNCHANGED <<wait, stage, stream, registered, chan, chanClosed, produced,
                 sent, clientClosed>>

\* Fault variant: the return on a closed connection skips wa.Remove().
OnClientClosedNoRemove ==
  /\ stage = "streaming"
  /\ clientClosed
  /\ stage' = "cancelled"
  /\ UNCHANGED <<wait, stream, registered, chan, chanClosed, produced, sent, clientClosed, deadline>>

\* case <-nch: the client closed the connection; return.
OnClientClosed ==
  /\ stage = "streaming"
  /\ clientClosed
  /\ stage' = "cancelled"
  /\ Remove
  /\ UNCHANGED <<wait, stream, chan, produced, sent, clientClosed, deadline>>

\* Fault variant: the select has no ctx.Done() case.
OnDeadlineMissing ==
  /\ stage = "streaming"
  /\ deadline
  /\ FALSE
  /\ UNCHANGED vars

\* case <-ctx.Done(): timed out; return.
OnDeadline ==
  /\ stage = "streaming"
  /\ deadline
  /\ stage' = "cancelled"
  /\ Remove
  /\ UNCHANGED <<wait, stream, chan, produced, sent, clientClosed, deadline>>

\* case ev, ok := <-ech with !ok: the hub closed the channel; return.
OnChannelClosed ==
  /\ stage = "streaming"
  /\ chanClosed /\ chan = << >>
  /\ stage' = "overrun"
  /\ Remove
  /\ UNCHANGED <<wait, stream, chan, produced, sent, clientClosed, deadline>>

\* Fault variant: the handler keeps streaming whatever the stream flag says.
OnEventIgnoresStream ==
  /\ stage = "streaming"
  /\ chan # << >>
  /\ chan' = Tail(chan)
  /\ \/ sent' = Append(sent, Head(chan)) /\ UNCHANGED <<stage, registered, chanClosed>>
     \/ sent' = sent /\ stage' = "failed" /\ Remove
  /\ UNCHANGED <<wait, stream, produced, clientClosed, deadline>>

\* case ev, ok := <-ech with ok: the event, its key trimmed of the store
\* prefix, is encoded to the client.  An encoding error returns; without
\* stream the handler returns after the first event; with it, it flushes
\* and loops.
OnEvent ==
  /\ stage = "streaming"
  /\ chan # << >>
  /\ chan' = Tail(chan)
  /\ \/ /\ sent' = Append(sent, Head(chan))
        /\ IF stream THEN UNCHANGED <<stage, registered, chanClosed>>
                     ELSE stage' = "completed" /\ Remove
     \/ /\ sent' = sent
        /\ stage' = "failed"
        /\ Remove
  /\ UNCHANGED <<wait, stream, produced, clientClosed, deadline>>

Next ==
  \/ Parse \/ Authorize \/ Do \/ WriteKeyEvent
  \/ Notify \/ WriteHeaders \/ ClientClose \/ DeadlineExpires
  \/ OnClientClosed \/ OnDeadline \/ OnChannelClosed \/ OnEvent

\* The handler goroutine runs each step of ServeHTTP (server.Do returns,
\* at the latest when the handler's timeout context expires) and runs
\* whenever one of its select cases is ready; the watch deadline is a
\* timer and always fires.  The client and the store are under no
\* obligation.
Fairness ==
  /\ WF_vars(Parse) /\ WF_vars(Authorize) /\ WF_vars(Do) /\ WF_vars(WriteKeyEvent)
  /\ WF_vars(DeadlineExpires)
  /\ WF_vars(WriteHeaders)
  /\ WF_vars(OnClientClosed \/ OnDeadline \/ OnChannelClosed \/ OnEvent)

Spec == Init /\ [][Next]_vars /\ Fairness

-----------------------------------------------------------------------------
(* Properties *)

\* Whatever ends the watch (client close, deadline, overrun, an encoding
\* error or the single event of a non-stream watch), the watcher is out of
\* the hub once the handler has returned.
ReleasedWhenEnded == stage \in Terminal => ~registered

\* While the watcher is in the hub, the client has received or has queued
\* every matching event since registration, in index order: a consumer
\* that falls behind is dropped, never silently skipped.
NoSilentGap ==
  registered =>
    \E hist \in {<< >>, <<0>>} : sent \o chan = hist \o [i \in 1..produced |-> i]

\* The handler implements what a watch promises its client: the events it
\* encodes are the watched key's changes in index order with no gap, a
\* watch without stream ends with its first event, nothing is sent after
\* the handler returned, and every watch returns.  The client's view is
\* the events sent so far and whether handleKeyWatch is still running.
Abstract == INSTANCE WatchAbstract
              WITH events <- produced, delivered <- sent, open <- stage \notin Terminal
WatchRefinesAbstract == Abstract!Spec

\* Every watch eventually ends and releases its watcher, even when no
\* event comes and the client stays connected.
WatchEventuallyReleased == <>(stage \in Terminal /\ ~registered)

=============================================================================
