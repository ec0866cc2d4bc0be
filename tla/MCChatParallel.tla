---------------------------- MODULE MCChatParallel ----------------------------
(* The tests of lesson 10_parallel, which are those of lesson 10, and a free *)
(* test.                                                                     *)
EXTENDS ChatParallel, TLC

T == INSTANCE ChatTests

Choose(c, reqs) == <<[op |-> "choose", who |-> c, reqs |-> reqs]>>
Leaves(c, how) == <<[op |-> "leave", who |-> c, how |-> how]>>

\* The tasks run on several threads; c1 reads nothing, c3 may take its name.
free ==
  [limit |-> 3, free |-> TRUE, blocks |->
    <<<<T!Client("c1") \o Choose("c1", {T!Join("n1")}),
        T!Client("c2") \o Choose("c2", {T!Join("n2")})
          \o Choose("c2", {T!SendDM("n1"), T!Plain("broadcast"), T!Plain("bad")}),
        T!Client("c3") \o Choose("c3", {T!Join("n1"), T!Join("n3")}) \o Leaves("c3", {"dropped"})>>>>]

JoiningTests ==
  [empty_server_shuts_down |-> T!empty_server_shuts_down,
   max_clients |-> T!max_clients,
   max_clients_after_client_leaves |-> T!max_clients_after_client_leaves,
   max_clients_herd |-> T!max_clients_herd,
   list_users_before_join |-> T!list_users_before_join,
   join_after_half_sec |-> T!join_after_half_sec,
   join_timeout |-> T!join_timeout,
   duplicated_join |-> T!duplicated_join]

\* Without list_users_reconnect, whose second Join races the end of the first
\* connection.
ListingTests ==
  [error_then_disconnect |-> T!error_then_disconnect,
   duplicated_username |-> T!duplicated_username,
   ping |-> T!ping, ping_before_join |-> T!ping_before_join,
   list_users_self |-> T!list_users_self,
   list_users_ignore_not_joined_users |-> T!list_users_ignore_not_joined_users,
   list_users_after_error |-> T!list_users_after_error,
   list_users |-> T!list_users]

DirectTests ==
  [dm_nonexistent_user |-> T!dm_nonexistent_user,
   dm_self |-> T!dm_self, dm_other |-> T!dm_other]

BroadcastTests ==
  [dm_spam_2 |-> T!dm_spam_2,
   broadcast_empty |-> T!broadcast_empty, broadcast |-> T!broadcast]

TimeoutTests ==
  [message_timeout_receiving_dms |-> T!message_timeout_receiving_dms]

\* The only test that runs on four threads.
SpamTest == [dm_spam |-> T!dm_spam]

OwnTests ==
  JoiningTests @@ ListingTests @@ DirectTests @@ BroadcastTests @@ TimeoutTests @@ [free |-> free]
=============================================================================
