------------------------------ MODULE MCChatAsync ------------------------------
(* The tests of lesson 10, and a free test. *)
EXTENDS ChatAsync, TLC

T == INSTANCE ChatTests

Choose(c, reqs) == <<[op |-> "choose", who |-> c, reqs |-> reqs]>>
Leaves(c, how) == <<[op |-> "leave", who |-> c, how |-> how]>>

\* With a limit of one the server takes two clients, and refuses the third.
free ==
  [limit |-> 1, free |-> TRUE, blocks |->
    <<<<T!Client("c1") \o Choose("c1", {T!Join("n1")})
          \o Choose("c1", {T!SendDM("n2"), T!Plain("broadcast")})
          \o Choose("c1", {T!Plain("broadcast"), T!Join("n1"), T!Plain("bad")}),
        T!Client("c2") \o Choose("c2", {T!Join("n1"), T!Join("n2")}) \o Leaves("c2", {"dropped"}),
        T!Client("c3") \o Choose("c3", {T!Join("n2")}) \o Leaves("c3", {"half"})>>>>]

\* The tests of the limit, which the server fails.
LimitTests == [max_clients |-> T!max_clients, max_clients_herd |-> T!max_clients_herd]

\* Without list_users_reconnect, whose second Join races the end of the first
\* connection, and the tests of the limit.
OwnTests ==
  [free |-> free,
   empty_server_shuts_down |-> T!empty_server_shuts_down,
   max_clients_after_client_leaves |-> T!max_clients_after_client_leaves,
   list_users_before_join |-> T!list_users_before_join,
   join_after_half_sec |-> T!join_after_half_sec,
   join_timeout |-> T!join_timeout,
   duplicated_join |-> T!duplicated_join,
   error_then_disconnect |-> T!error_then_disconnect,
   duplicated_username |-> T!duplicated_username,
   ping |-> T!ping, ping_before_join |-> T!ping_before_join,
   list_users_self |-> T!list_users_self,
   list_users_ignore_not_joined_users |-> T!list_users_ignore_not_joined_users,
   list_users_after_error |-> T!list_users_after_error,
   list_users |-> T!list_users,
   dm_nonexistent_user |-> T!dm_nonexistent_user,
   dm_self |-> T!dm_self, dm_other |-> T!dm_other,
   dm_spam |-> T!dm_spam, dm_spam_2 |-> T!dm_spam_2,
   broadcast_empty |-> T!broadcast_empty, broadcast |-> T!broadcast,
   message_timeout_receiving_dms |-> T!message_timeout_receiving_dms]
=============================================================================
