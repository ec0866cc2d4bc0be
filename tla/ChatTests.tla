------------------------------- MODULE ChatTests -------------------------------
(***************************************************************************)
(* The tests of lessons/10/exercises/src/lib.rs as scripts.  Lessons 08,   *)
(* 09 and 10_parallel have the same tests of their own servers.  A test    *)
(* is the limit of its server and a sequence of blocks; the scripts of a   *)
(* block run in parallel, and a script is a sequence of steps.  The texts  *)
(* of messages are left out; loops run for the bounds named below.         *)
(***************************************************************************)
EXTENDS Naturals, Sequences

SpamCount == 2   \* bound: 10000 in the tests
HerdSize == 3    \* bound: 50 in the test
HerdLimit == 2   \* bound: 5 in the test
Npcs == 2        \* bound: 5 in the test

-----------------------------------------------------------------------------
(* Steps *)

Join(n) == [kind |-> "join", name |-> n]
SendDM(n) == [kind |-> "dm", name |-> n]
Plain(k) == [kind |-> k]
\* The errors: Server is full, Username already taken, Unexpected message
\* received, Timed out waiting for Join, Connection closed, Cannot send a DM
\* to yourself, User .. does not exist.
Why == {"full", "taken", "unexpected", "timeout", "closed", "self", "nobody"}
Error(why) == [kind |-> "error", why |-> why]
Message(from) == [kind |-> "msg", from |-> from]

\* A client that connects, and what it does then.
Client(c) == <<[op |-> "connect", who |-> c]>>
Send(c, r) == <<[op |-> "send", who |-> c, req |-> r]>>
\* A send that may fail, after which the script goes on, or gives up.
TrySend(c, r) == <<[op |-> "try", who |-> c, req |-> r]>>
SendOrGiveUp(c, r) == <<[op |-> "last", who |-> c, req |-> r]>>
Expect(c, replies) == <<[op |-> "expect", who |-> c, replies |-> replies]>>
Recv(c) == <<[op |-> "recv", who |-> c]>>
Close(c) == <<[op |-> "close", who |-> c]>>
CheckClosed(c) == <<[op |-> "closed", who |-> c]>>
Sleep(ms) == <<[op |-> "sleep", ms |-> ms]>>
\* The number of clients that were welcomed; all others got an error.
AssertWelcomed(n) == <<[op |-> "welcomed", count |-> n]>>

Joins(c, n) == Send(c, Join(n)) \o Expect(c, {Plain("welcome")})
Pings(c) == Send(c, Plain("ping")) \o Expect(c, {Plain("pong")})
ListUsers(c, users) ==
  Send(c, Plain("list")) \o Expect(c, {[kind |-> "list", users |-> users]})
Dm(c, n) == Send(c, SendDM(n))
Broadcasts(c) == Send(c, Plain("broadcast"))
ExpectError(c, why) == Expect(c, {Error(why)})
ExpectMessage(c, from) == Expect(c, {Message(from)})
ClientJoins(c, n) == Client(c) \o Joins(c, n)

Times(n, script) ==
  LET rep[k \in 0 .. n] == IF k = 0 THEN <<>> ELSE rep[k - 1] \o script IN rep[n]

One(limit, script) == [limit |-> limit, free |-> FALSE, blocks |-> <<<<script>>>>]

-----------------------------------------------------------------------------
(* Connecting, leaving and the limit *)

empty_server_shuts_down == One(2, <<>>)

max_clients ==
  One(2, Client("c1") \o Client("c2") \o Client("c3")
         \o ExpectError("c3", "full") \o CheckClosed("c3"))

max_clients_after_client_leaves ==
  One(2, Client("c1") \o Client("c2") \o Close("c2") \o Sleep(500)
         \o ClientJoins("c3", "n1"))

HerdClient(c, n) ==
  Client(c) \o TrySend(c, Join(n))
    \o Expect(c, {Plain("welcome")} \cup {Error(why) : why \in Why})
max_clients_herd ==
  LET Member == <<HerdClient("c1", "n1"), HerdClient("c2", "n2"), HerdClient("c3", "n3")>>
  IN  [limit |-> HerdLimit, free |-> FALSE,
       blocks |-> <<SubSeq(Member, 1, HerdSize), <<AssertWelcomed(HerdLimit)>>>>]

list_users_before_join ==
  One(2, Client("c1") \o Send("c1", Plain("list")) \o ExpectError("c1", "unexpected"))

join_after_half_sec ==
  One(2, Client("c1") \o Sleep(500) \o Joins("c1", "n1") \o ListUsers("c1", {"n1"}))

\* The test ends early when the Join cannot be sent any more.
join_timeout ==
  One(2, Client("c1") \o Sleep(3000) \o SendOrGiveUp("c1", Join("n1"))
         \o ExpectError("c1", "timeout"))

duplicated_join ==
  One(2, ClientJoins("c1", "n1") \o Send("c1", Join("n2")) \o ExpectError("c1", "unexpected"))

error_then_disconnect ==
  One(2, ClientJoins("c1", "n1") \o Send("c1", Join("n2")) \o Close("c1")
         \o ClientJoins("c2", "n2"))

duplicated_username ==
  One(2, ClientJoins("c1", "n1")
         \o Client("c2") \o Send("c2", Join("n1")) \o ExpectError("c2", "taken"))

ping == One(2, ClientJoins("c1", "n1") \o Pings("c1"))

ping_before_join ==
  One(2, Client("c1") \o Send("c1", Plain("ping")) \o ExpectError("c1", "unexpected"))

-----------------------------------------------------------------------------
(* Listing users *)

list_users_reconnect ==
  One(2, ClientJoins("c1", "n1") \o Close("c1")
         \o ClientJoins("c2", "n1") \o ListUsers("c2", {"n1"}))

list_users_self == One(2, ClientJoins("c1", "n1") \o ListUsers("c1", {"n1"}))

list_users_ignore_not_joined_users ==
  One(2, Client("c1") \o ClientJoins("c2", "n2") \o ListUsers("c2", {"n2"}))

list_users_after_error ==
  One(2, ClientJoins("c1", "n1") \o ClientJoins("c2", "n2")
         \o Send("c1", Join("n3")) \o Sleep(1000) \o ListUsers("c2", {"n2"}))

list_users ==
  One(2, ClientJoins("c1", "n1") \o ClientJoins("c2", "n2")
         \o ListUsers("c2", {"n1", "n2"}) \o Close("c2") \o Sleep(1000)
         \o ListUsers("c1", {"n1"}))

-----------------------------------------------------------------------------
(* Messages *)

dm_nonexistent_user ==
  One(2, ClientJoins("c1", "n1") \o Dm("c1", "n2") \o ExpectError("c1", "nobody"))

dm_self ==
  One(2, ClientJoins("c1", "n1") \o Dm("c1", "n1") \o ExpectError("c1", "self"))

dm_other ==
  One(2, ClientJoins("c1", "n1") \o ClientJoins("c2", "n2")
         \o Dm("c1", "n2") \o ExpectMessage("c2", "n1"))

\* One sends messages; the other sends as often, reads once for each, and
\* then reads as often again.
Spam(request, answer) ==
  LET replies == {Message("n1"), answer}
      spammer == Times(SpamCount, Dm("c1", "n2")) \o Close("c1")
      spammed == Times(SpamCount, Send("c2", request) \o Expect("c2", replies))
                   \o Times(SpamCount, Expect("c2", replies)) \o Close("c2")
  IN  [limit |-> 2, free |-> FALSE,
       blocks |-> <<<<ClientJoins("c1", "n1") \o ClientJoins("c2", "n2")>>,
                    <<spammer, spammed>>>>]
dm_spam == Spam(SendDM("n3"), Error("nobody"))
dm_spam_2 == Spam(Plain("ping"), Plain("pong"))

broadcast_empty == One(2, ClientJoins("c1", "n1") \o Broadcasts("c1") \o Pings("c1"))

broadcast ==
  LET joining == <<ClientJoins("c2", "n2"), ClientJoins("c3", "n3")>>
  IN  [limit |-> 10, free |-> FALSE,
       blocks |-> <<<<ClientJoins("c1", "n1")>>,
                    SubSeq(joining, 1, Npcs),
                    <<Broadcasts("c1") \o Pings("c1")
                        \o ExpectMessage("c2", "n1") \o ExpectMessage("c3", "n1")>>>>]

\* The timers of the test are those of a timeout that no server implements.
message_timeout_receiving_dms ==
  LET told(how, ms) == how \o Recv("c1") \o Sleep(ms)
  IN  One(10, ClientJoins("c1", "n1") \o ClientJoins("c2", "n2") \o Sleep(1500)
              \o Times(3, told(Dm("c2", "n1"), 1500))
              \o Times(2, told(Broadcasts("c2"), 2000)) \o Pings("c1"))
=============================================================================
