--------------------------- MODULE HttpConnection ---------------------------
(***************************************************************************)
(* crow::Connection, the server's end of one HTTP connection, with the     *)
(* deadline queue all connections of an io thread share.  The thread runs  *)
(* one completion handler at a time, in the order in which asynchronous    *)
(* operations complete; clients and the kernel act at any time between     *)
(* its steps.  What a read brings is a sequence of items, each what makes  *)
(* the parser call back:                                                   *)
(*    "expect"   headers are complete and ask for 100-continue             *)
(*    "get"      a message is complete; "last" one that ends the           *)
(*               connection, "nohost" one without Host, "upgrade" one that *)
(*               asks for another protocol                                 *)
(*    "bad"      what the parser refuses                                   *)
(* The REST handlers are synchronous: each has ended its response when it  *)
(* returns, exceptions included (crow::Router::handle).                    *)
(***************************************************************************)
EXTENDS Integers, SequencesExt, FiniteSets

CONSTANTS
  Conn,    \* connections accepted
  Setup    \* what clients do: [Conn -> [comes : whether they connect, send :
           \* segments, each a sequence of items, paced : whether they wait
           \* for each reply]]

NoConn == 0
Item == {"expect", "get", "last", "nohost", "upgrade", "bad"}
Asks(item) == item \in {"expect", "get", "last", "nohost"}

(* Who waits for replies asks once in a segment at most. *)
ASSUME HttpAssumption ==
  /\ NoConn \notin Conn
  /\ Setup \subseteq [Conn -> [comes : BOOLEAN, send : Seq(Seq(Item)), paced : BOOLEAN]]
  /\ \A s \in Setup, c \in Conn :
       s[c].paced => \A i \in DOMAIN s[c].send :
         LET items == s[c].send[i]
         IN /\ \A j, k \in DOMAIN items : Asks(items[j]) /\ Asks(items[k]) => j = k
            /\ Len(items) > 1 => items[Len(items)] # "bad"

VARIABLES
  setup,
  sent, inbox, peer,       \* segments sent, items not yet read, the client's end
  replies,                 \* what the client has received
  rd, wr,                  \* the outstanding async_read_some and async_write's
  posted,                  \* completions the io thread has still to handle
  life, open,              \* of the Connection object; adaptor_.is_open()
  is_reading, is_writing,
  close_connection, completed, \* close_connection_, res.completed_
  dq, step, key,           \* dumb_timer_queue, timer_cancel_key_
  feed,                    \* the feed the io thread is in
  overlap,                 \* a write was begun while one was not handled
  mishap                   \* a handler ran for a deleted connection

clientVars == <<sent, inbox, peer, replies>>
opVars == <<rd, wr>>
flagVars == <<is_reading, is_writing, close_connection, completed>>
timerVars == <<dq, step, key>>
vars == <<setup, clientVars, opVars, posted, life, open, flagVars, timerVars, feed, overlap, mishap>>

NoFeed == [conn |-> NoConn, left |-> <<>>]
NoKey == -1

Init ==
  /\ setup \in Setup
  /\ sent = [c \in Conn |-> 0] /\ inbox = [c \in Conn |-> <<>>] /\ peer = [c \in Conn |-> "up"]
  /\ replies = [c \in Conn |-> <<>>]
  /\ rd = [c \in Conn |-> FALSE] /\ wr = [c \in Conn |-> <<>>] /\ posted = <<>>
  /\ life = [c \in Conn |-> "unborn"] /\ open = [c \in Conn |-> TRUE]
  /\ is_reading = [c \in Conn |-> FALSE] /\ is_writing = [c \in Conn |-> FALSE]
  /\ close_connection = [c \in Conn |-> FALSE] /\ completed = [c \in Conn |-> FALSE]
  /\ dq = <<>> /\ step = 0 /\ key = [c \in Conn |-> NoKey]
  /\ feed = NoFeed
  /\ overlap = [c \in Conn |-> FALSE] /\ mishap = "none"

-----------------------------------------------------------------------------
(* The clients.                                                            *)

Asked(c) == SelectSeq(FlattenSeq(SubSeq(setup[c].send, 1, sent[c])), Asks)
Asking(c) == {i \in 1 .. sent[c] : \E j \in DOMAIN setup[c].send[i] : Asks(setup[c].send[i][j])}
Waits(c) == setup[c].paced /\ Len(replies[c]) < Cardinality(Asking(c))

Send(c) ==
  /\ life[c] # "unborn" /\ peer[c] = "up" /\ sent[c] < Len(setup[c].send)
  /\ ~Waits(c)
  /\ sent' = [sent EXCEPT ![c] = @ + 1]
  /\ inbox' = [inbox EXCEPT ![c] = @ \o setup[c].send[sent[c] + 1]]
  /\ UNCHANGED <<setup, peer, replies, opVars, posted, life, open, flagVars, timerVars, feed,
                 overlap, mishap>>

(* It ends its side, or goes away altogether. *)
Leave(c) ==
  /\ life[c] # "unborn" /\ peer[c] = "up" /\ ~Waits(c)
  /\ \E how \in {"shut", "gone"} : peer' = [peer EXCEPT ![c] = how]
  /\ UNCHANGED <<setup, sent, inbox, replies, opVars, posted, life, open, flagVars, timerVars, feed,
                 overlap, mishap>>

-----------------------------------------------------------------------------
(* The kernel and the reactor: operations complete.                        *)

Post(c, kind, ok, items) == Append(posted, [conn |-> c, kind |-> kind, ok |-> ok, items |-> items])

(* A read brings as much as is there, or as fits. *)
ReadCompletes(c) ==
  /\ rd[c] /\ rd' = [rd EXCEPT ![c] = FALSE]
  /\ \/ /\ peer[c] # "gone"
        /\ \E n \in 1 .. Len(inbox[c]) :
             /\ posted' = Post(c, "read", TRUE, SubSeq(inbox[c], 1, n))
             /\ inbox' = [inbox EXCEPT ![c] = SubSeq(@, n + 1, Len(@))]
     \/ /\ peer[c] = "gone" \/ (peer[c] = "shut" /\ inbox[c] = <<>>)
        /\ posted' = Post(c, "read", FALSE, <<>>) /\ UNCHANGED inbox
  /\ UNCHANGED <<setup, sent, peer, replies, wr, life, open, flagVars, timerVars, feed, overlap, mishap>>

WriteCompletes(c) ==
  /\ wr[c] # <<>>
  /\ wr' = [wr EXCEPT ![c] = Tail(@)]
  /\ posted' = Post(c, "write", peer[c] # "gone", <<>>)
  /\ replies' = IF peer[c] = "gone" THEN replies ELSE [replies EXCEPT ![c] = Append(@, Head(wr[c]))]
  /\ UNCHANGED <<setup, sent, inbox, peer, rd, life, open, flagVars, timerVars, feed, overlap, mishap>>

-----------------------------------------------------------------------------
(* dumb_timer_queue                                                        *)

(* cancel: the entry of the key, if it has not been popped *)
Cancelled(c) ==
  LET i == key[c] - step + 1
  IN IF key[c] # NoKey /\ i \in DOMAIN dq THEN [dq EXCEPT ![i] = NoConn] ELSE dq

CancelDeadline(c) ==
  /\ dq' = Cancelled(c) /\ key' = [key EXCEPT ![c] = NoKey] /\ UNCHANGED step

(* add *)
StartDeadline(c) ==
  /\ dq' = Append(Cancelled(c), c) /\ key' = [key EXCEPT ![c] = step + Len(dq)] /\ UNCHANGED step

(* adaptor_.close: outstanding operations complete with an error. *)
Aborted(c) ==
  [i \in 1 .. Len(wr[c]) |-> [conn |-> c, kind |-> "write", ok |-> FALSE, items |-> <<>>]]
  \o (IF rd[c] THEN <<[conn |-> c, kind |-> "read", ok |-> FALSE, items |-> <<>>]>> ELSE <<>>)

Close(c) ==
  /\ open' = [open EXCEPT ![c] = FALSE]
  /\ rd' = [rd EXCEPT ![c] = FALSE] /\ wr' = [wr EXCEPT ![c] = <<>>]

Idle == feed = NoFeed /\ mishap = "none"

(* process: the front deadline has passed. *)
Process ==
  /\ Idle /\ dq # <<>>
  /\ dq' = Tail(dq) /\ step' = step + 1
  /\ LET c == Head(dq)
     IN IF c = NoConn
        THEN UNCHANGED <<opVars, posted, open, mishap>>
        ELSE IF life[c] = "deleted"
        THEN mishap' = "timer" /\ UNCHANGED <<opVars, posted, open>>
        ELSE IF open[c]
        THEN Close(c) /\ posted' = posted \o Aborted(c) /\ UNCHANGED mishap
        ELSE UNCHANGED <<opVars, posted, open, mishap>>
  /\ UNCHANGED <<setup, clientVars, life, flagVars, key, feed, overlap>>

-----------------------------------------------------------------------------
(* The server accepts a connection and posts its start to the io thread.   *)

Accept(c) ==
  /\ life[c] = "unborn" /\ setup[c].comes
  /\ life' = [life EXCEPT ![c] = "accepted"]
  /\ posted' = Post(c, "start", TRUE, <<>>)
  /\ UNCHANGED <<setup, clientVars, opVars, open, flagVars, timerVars, feed, overlap, mishap>>

(* The next completion is one of c's of this kind.  A handler that finds   *)
(* its Connection deleted is undefined behaviour.                          *)
Handles(c, kind, ok) ==
  /\ Idle /\ posted # <<>>
  /\ Head(posted).conn = c /\ Head(posted).kind = kind /\ Head(posted).ok = ok
  /\ life[c] = "accepted"

Vanished ==
  /\ Idle /\ posted # <<>> /\ life[Head(posted).conn] = "deleted"
  /\ mishap' = "freed"
  /\ UNCHANGED <<setup, clientVars, opVars, posted, life, open, flagVars, timerVars, feed, overlap>>

Start(c) ==
  /\ Handles(c, "start", TRUE) /\ posted' = Tail(posted)
  /\ StartDeadline(c)
  /\ rd' = [rd EXCEPT ![c] = TRUE] /\ is_reading' = [is_reading EXCEPT ![c] = TRUE]
  /\ UNCHANGED <<setup, clientVars, wr, life, open, is_writing, close_connection, completed, feed,
                 overlap, mishap>>

(* The read callback feeds the parser. *)
FeedBegins(c) ==
  /\ Handles(c, "read", TRUE)
  /\ feed' = [conn |-> c, left |-> Head(posted).items] /\ posted' = Tail(posted)
  /\ UNCHANGED <<setup, clientVars, opVars, life, open, flagVars, timerVars, overlap, mishap>>

(* delete this: the destructors cancel the deadline and close the socket. *)
Destroy(c, rest) ==
  /\ life' = [life EXCEPT ![c] = "deleted"]
  /\ Close(c) /\ posted' = rest \o Aborted(c) /\ CancelDeadline(c)

MutReadFails(c, rest) ==
  /\ is_reading' = [is_reading EXCEPT ![c] = FALSE]
  /\ Destroy(c, rest)
  /\ feed' = NoFeed
  /\ UNCHANGED <<setup, clientVars, is_writing, close_connection, completed, overlap, mishap>>

(* error_while_reading: check_destroy leaves the rest to the write callback. *)
ReadFails(c, rest) ==
  /\ is_reading' = [is_reading EXCEPT ![c] = FALSE]
  /\ IF is_writing[c]
     THEN Close(c) /\ posted' = rest \o Aborted(c) /\ CancelDeadline(c) /\ UNCHANGED life
     ELSE Destroy(c, rest)
  /\ feed' = NoFeed
  /\ UNCHANGED <<setup, clientVars, is_writing, close_connection, completed, overlap, mishap>>

ReadError(c) == Handles(c, "read", FALSE) /\ ReadFails(c, Tail(posted))

-----------------------------------------------------------------------------
(* Inside feed, and what the read callback does after it.                  *)

Feeds(c, item) ==
  feed.conn = c /\ feed.left # <<>> /\ Head(feed.left) = item /\ ~close_connection[c]
Consume == feed' = [feed EXCEPT !.left = Tail(@)]

(* A write shares the Connection's buffers with one that is outstanding:   *)
(* what that one sends is no longer what it was.                           *)
Garbled(c) == [i \in DOMAIN wr[c] |-> IF wr[c][i] = "100" THEN "100" ELSE "garbled"]

DoWrite(c, reply) ==
  /\ is_writing' = [is_writing EXCEPT ![c] = TRUE]
  /\ overlap' = [overlap EXCEPT ![c] = @ \/ is_writing[c]]
  /\ wr' = [wr EXCEPT ![c] = Append(Garbled(c), reply)]
  /\ UNCHANGED <<rd, posted>>

(* handle_header.  What is written here is written whether or not the      *)
(* socket is still open.                                                   *)
HandleHeader(c) ==
  /\ Feeds(c, "expect") /\ Consume
  /\ IF open[c] THEN DoWrite(c, "100")
     ELSE /\ posted' = Post(c, "write", FALSE, <<>>)
          /\ is_writing' = [is_writing EXCEPT ![c] = TRUE]
          /\ overlap' = [overlap EXCEPT ![c] = @ \/ is_writing[c]]
          /\ UNCHANGED opVars
  /\ UNCHANGED <<setup, clientVars, life, open, is_reading, close_connection, completed, timerVars, mishap>>

(* complete_request, with what the response is *)
CompleteRequest(c, reply) ==
  IF open[c] THEN DoWrite(c, reply) ELSE UNCHANGED <<is_writing, overlap, opVars, posted>>

(* handle: the handler is called unless the response is completed, as one  *)
(* whose write has not been handled yet still is.                          *)
HandleGet(c, item) ==
  /\ Feeds(c, item) /\ Consume /\ CancelDeadline(c)
  /\ close_connection' = [close_connection EXCEPT ![c] = @ \/ item = "last"]
  /\ completed' = [completed EXCEPT ![c] = TRUE]
  /\ CompleteRequest(c, IF completed[c] THEN "stale" ELSE "200")
  /\ UNCHANGED <<setup, clientVars, life, open, is_reading, mishap>>

HandleNoHost(c) ==
  /\ Feeds(c, "nohost") /\ Consume /\ CancelDeadline(c)
  /\ completed' = [completed EXCEPT ![c] = FALSE]
  /\ CompleteRequest(c, "400")
  /\ UNCHANGED <<setup, clientVars, life, open, is_reading, close_connection, mishap>>

(* No rule takes an upgrade: the response is a 404 that nobody writes. *)
HandleUpgrade(c) ==
  /\ Feeds(c, "upgrade") /\ Consume /\ CancelDeadline(c)
  /\ close_connection' = [close_connection EXCEPT ![c] = TRUE]
  /\ completed' = [completed EXCEPT ![c] = TRUE]
  /\ UNCHANGED <<setup, clientVars, opVars, posted, life, open, is_reading, is_writing, overlap, mishap>>

(* The parser refuses what follows the last message. *)
Refused(c) ==
  feed.conn = c /\ feed.left # <<>> /\ (Head(feed.left) = "bad" \/ close_connection[c])
FeedFails(c) ==
  /\ Refused(c) \/ (feed.conn = c /\ feed.left = <<>> /\ ~open[c])
  /\ ReadFails(c, posted)

FeedCloses(c) ==
  /\ feed.conn = c /\ feed.left = <<>> /\ open[c] /\ close_connection[c]
  /\ feed' = NoFeed
  /\ is_reading' = [is_reading EXCEPT ![c] = FALSE]
  /\ IF is_writing[c] THEN CancelDeadline(c) /\ UNCHANGED <<life, open, opVars, posted>>
     ELSE Destroy(c, posted)
  /\ UNCHANGED <<setup, clientVars, is_writing, close_connection, completed, overlap, mishap>>

MutFeedGoesOn(c) ==
  /\ feed.conn = c /\ feed.left = <<>> /\ open[c] /\ ~close_connection[c]
  /\ feed' = NoFeed
  /\ rd' = [rd EXCEPT ![c] = TRUE]
  /\ UNCHANGED <<setup, clientVars, wr, posted, life, open, flagVars, timerVars, overlap, mishap>>

FeedGoesOn(c) ==
  /\ feed.conn = c /\ feed.left = <<>> /\ open[c] /\ ~close_connection[c]
  /\ feed' = NoFeed
  /\ StartDeadline(c) /\ rd' = [rd EXCEPT ![c] = TRUE]
  /\ UNCHANGED <<setup, clientVars, wr, posted, life, open, flagVars, overlap, mishap>>

-----------------------------------------------------------------------------
(* The write callback.                                                     *)

MutWriteDone(c, ok) ==
  /\ Handles(c, "write", ok)
  /\ is_writing' = [is_writing EXCEPT ![c] = FALSE]
  /\ IF (~ok \/ close_connection[c]) /\ ~is_reading[c]
     THEN Destroy(c, Tail(posted))
     ELSE IF ok /\ close_connection[c]
     THEN Close(c) /\ posted' = Tail(posted) \o Aborted(c) /\ UNCHANGED <<life, timerVars>>
     ELSE posted' = Tail(posted) /\ UNCHANGED <<opVars, open, life, timerVars>>
  /\ UNCHANGED <<setup, clientVars, is_reading, close_connection, completed, feed, overlap, mishap>>

(* It clears the response.  Only an error, or close_connection_, makes it  *)
(* look whether the Connection is to be destroyed.                         *)
WriteDone(c, ok) ==
  /\ Handles(c, "write", ok)
  /\ is_writing' = [is_writing EXCEPT ![c] = FALSE]
  /\ completed' = [completed EXCEPT ![c] = FALSE]
  /\ IF (~ok \/ close_connection[c]) /\ ~is_reading[c]
     THEN Destroy(c, Tail(posted))
     ELSE IF ok /\ close_connection[c]
     THEN Close(c) /\ posted' = Tail(posted) \o Aborted(c) /\ UNCHANGED <<life, timerVars>>
     ELSE /\ wr' = [wr EXCEPT ![c] = Garbled(c)] /\ posted' = Tail(posted)
          /\ UNCHANGED <<rd, open, life, timerVars>>
  /\ UNCHANGED <<setup, clientVars, is_reading, close_connection, feed, overlap, mishap>>

-----------------------------------------------------------------------------
Completion(c) ==
  \/ Start(c) \/ FeedBegins(c) \/ ReadError(c) \/ \E ok \in BOOLEAN : WriteDone(c, ok)

Feeding(c) ==
  \/ HandleHeader(c) \/ \E item \in {"get", "last"} : HandleGet(c, item)
  \/ HandleNoHost(c) \/ HandleUpgrade(c)
  \/ FeedFails(c) \/ FeedCloses(c) \/ FeedGoesOn(c)

IoThread == Vanished \/ \E c \in Conn : Completion(c) \/ Feeding(c)

-----------------------------------------------------------------------------
(* Properties.                                                             *)

(* A connection that waits for its client has one deadline, in the place   *)
(* its key says, however many the others have added, cancelled or let      *)
(* expire meanwhile; one that is deleted has none.                         *)
Deadlines(c) == {i \in DOMAIN dq : dq[i] = c}
WaitingHasDeadline ==
  \A c \in Conn :
    /\ Cardinality(Deadlines(c)) <= 1
    /\ rd[c] => Deadlines(c) = {key[c] - step + 1}
    /\ life[c] = "deleted" => Deadlines(c) = {}

(* No callback, of a read, a write or a deadline, runs for a Connection    *)
(* that has been deleted, unless the server wrote to it while an earlier   *)
(* write had not been handled, which it only does for a client that does   *)
(* not wait for replies.                                                   *)
CallbacksFindConnection ==
  /\ mishap # "none" => \E c \in Conn : overlap[c] /\ life[c] = "deleted"
  /\ \A c \in Conn : overlap[c] => ~setup[c].paced
  /\ WaitingHasDeadline

Reply == [expect |-> "100", get |-> "200", last |-> "200", nohost |-> "400"]
Answers(c) == [i \in DOMAIN Asked(c) |-> Reply[Asked(c)[i]]]

(* What a client has received are the replies to its requests, in their    *)
(* order, each what the handler called for it said, with the same          *)
(* exception.                                                              *)
RepliesAnswer == \A c \in Conn : ~overlap[c] => IsPrefix(replies[c], Answers(c))
=============================================================================
