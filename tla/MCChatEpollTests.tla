--------------------------- MODULE MCChatEpollTests ---------------------------
(* The tests of lesson 09. *)
EXTENDS ChatEpollTests, TLC

T == INSTANCE ChatTests

Silent == [c \in Conn |-> <<>>]

\* Without the tests that the server may fail: max_clientsey, max_clients_herd
\* and join_timeout between these, and duplicated_username below.
JoiningTests ==
  [empty_server_shuts_down |-> T!empty_server_shuts_down,
   max_clients_after_client_leaves |-> T!max_clients_after_client_leaves]

FirstMessageTests ==
  [list_users_before_join |-> T!list_users_before_join,
   join_after_half_sec |-> T!join_after_half_sec,
   ping_before_join |-> T!ping_before_join]

ListingTests ==
  [ping |-> T!ping,
   duplicated_join |-> T!duplicated_join,
   list_users_reconnect |-> T!list_users_reconnect,
   list_users_self |-> T!list_users_self,
   list_users_ignore_not_joined_users |-> T!list_users_ignore_not_joined_users,
   list_users_after_error |-> T!list_users_after_error,
   list_users |-> T!list_users]

DirectTests ==
  [dm_nonexistent_user |-> T!dm_nonexistent_user,
   dm_self |-> T!dm_self, dm_other |-> T!dm_other]

OwnTests == JoiningTests @@ FirstMessageTests @@ ListingTests @@ DirectTests

\* Tests that do not wait for an answer before they send again.
SpamTests == [dm_spam |-> T!dm_spam, dm_spam_2 |-> T!dm_spam_2]
HastyTests == SpamTests @@ [broadcast_empty |-> T!broadcast_empty]
=============================================================================
