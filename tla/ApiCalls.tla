------------------------------ MODULE ApiCalls ------------------------------
(***************************************************************************)
(* What each call of the API does to a context besides building its        *)
(* request.  All of them have the same shape: take the monitor, return     *)
(* PNR_IN_PROGRESS when a transaction is going on, prepare the request in   *)
(* http_buf, then, when that succeeded, set trans (and method), start the   *)
(* state machine and release the monitor.  They differ in                   *)
(*   trans, method  what they ask for;                                      *)
(*   early, late    which of trans and method they assign before the        *)
(*                  request is prepared, and once it is;                    *)
(*   forms          whether something can fail before anything is assigned; *)
(*   keeps          whether such a failure returns with the monitor locked; *)
(*   requires       the trans they insist on ("none": any);                 *)
(*   packs          whether they compress the message first.                *)
(* Requests.tla runs them.  What a request looks like is left out.          *)
(***************************************************************************)

\* Calls that set trans once the request is prepared and leave method alone
\* (pbntf_trans_outcome set it to GET at the end of the previous transaction)
Get(t) == [trans |-> t, method |-> "GET", early |-> {}, late |-> {"trans"},
           forms |-> FALSE, keeps |-> FALSE, requires |-> "none", packs |-> FALSE]
\* ... and return with the monitor locked when their channels do not fit
GetWithChannels(t) == [Get(t) EXCEPT !.forms = TRUE, !.keeps = TRUE]
\* Calls of the Objects API, which set trans before and after the preparation
GetObjects(t) == [Get(t) EXCEPT !.early = {"trans"}]
\* Calls that set trans and method before and after the preparation
Send(t, verb) == [Get(t) EXCEPT !.method = verb, !.early = {"trans", "method"},
                                !.late = {"trans", "method"}]
\* ... and form the object they send before that
SendObject(t) == [Send(t, "PATCH") EXCEPT !.forms = TRUE]
\* Calls that ask for the next page of the last call's answer
More(t) == [Get(t) EXCEPT !.late = {}, !.requires = t]

\* pubnub_pubsubapi.c
pubnub_publish == Get("PUBLISH")
pubnub_signal == Get("SIGNAL")
pubnub_subscribe == GetWithChannels("SUBSCRIBE")

\* pubnub_coreapi.c
pubnub_leave == Get("LEAVE")
pubnub_time == Get("TIME")
pubnub_history == Get("HISTORY")
pubnub_heartbeat == GetWithChannels("HEARTBEAT")
pubnub_here_now == Get("HERENOW")
pubnub_global_here_now == Get("GLOBAL_HERENOW")
pubnub_where_now == Get("WHERENOW")
pubnub_set_state == Get("SET_STATE")
pubnub_state_get == Get("STATE_GET")
pubnub_remove_channel_group == Get("REMOVE_CHANNEL_GROUP")
pubnub_remove_channel_from_group == Get("REMOVE_CHANNEL_FROM_GROUP")
pubnub_add_channel_to_group == Get("ADD_CHANNEL_TO_GROUP")
pubnub_list_channel_group == Get("LIST_CHANNEL_GROUP")

\* pubnub_coreapi_ex.c; an encryption that fails keeps the monitor locked
pubnub_publish_ex(verb, packs) ==
    [Get("PUBLISH") EXCEPT !.method = verb, !.late = {"trans", "method"},
                           !.forms = TRUE, !.keeps = TRUE, !.packs = packs]
pubnub_signal_ex == Get("SIGNAL")
pubnub_subscribe_ex == GetWithChannels("SUBSCRIBE")
pubnub_here_now_ex == Get("HERENOW")
pubnub_global_here_now_ex == Get("GLOBAL_HERENOW")
pubnub_history_ex == Get("HISTORY")
heartbeat_with_state == GetWithChannels("HEARTBEAT")

\* pubnub_subscribe_v2.c, pubnub_subscribe_with_state.c
pubnub_subscribe_v2 == GetWithChannels("SUBSCRIBE_V2")
pubnub_subscribe_with_state == GetWithChannels("SUBSCRIBE")

\* pubnub_advanced_history.c, pubnub_fetch_history.c
pubnub_message_counts == Get("MESSAGE_COUNTS")
pubnub_delete_messages == [Get("DELETE_MESSAGES") EXCEPT !.method = "DELETE",
                                                          !.late = {"trans", "method"}]
pubnub_fetch_history == Get("FETCH_HISTORY")

\* pubnub_actions_api.c
pubnub_add_message_action_str == [Get("ADD_ACTION") EXCEPT !.method = "POST", !.forms = TRUE,
                                     !.early = {"method"}, !.late = {"trans", "method"}]
pubnub_remove_message_action == [Get("REMOVE_ACTION") EXCEPT !.method = "DELETE",
                                     !.early = {"method"}, !.late = {"trans", "method"}]
pubnub_get_message_actions == Get("GET_ACTIONS")
pubnub_get_message_actions_more == More("GET_ACTIONS")
pubnub_history_with_message_actions == Get("HISTORY_WITH_ACTIONS")
pubnub_history_with_message_actions_more == More("HISTORY_WITH_ACTIONS")

\* pubnub_grant_token_api.c, pubnub_revoke_token_api.c
pubnub_grant_token == Send("GRANT_TOKEN", "POST")
pubnub_revoke_token == Send("REVOKE_TOKEN", "DELETE")

\* pubnub_objects_api.c
pubnub_getall_uuidmetadata_ex == GetObjects("GETALL_UUIDMETADATA")
pubnub_set_uuidmetadata == Send("SET_UUIDMETADATA", "PATCH")
pubnub_get_uuidmetadata == GetObjects("GET_UUIDMETADATA")
pubnub_remove_uuidmetadata == Send("DELETE_UUIDMETADATA", "DELETE")
pubnub_getall_channelmetadata_ex == GetObjects("GETALL_CHANNELMETADATA")
pubnub_set_channelmetadata == Send("SET_CHANNELMETADATA", "PATCH")
pubnub_get_channelmetadata == GetObjects("GET_CHANNELMETADATA")
pubnub_remove_channelmetadata == Send("REMOVE_CHANNELMETADATA", "DELETE")
pubnub_get_memberships_ex == GetObjects("GET_MEMBERSHIPS")
pubnub_set_memberships_ex == SendObject("SET_MEMBERSHIPS")
pubnub_remove_memberships_ex == SendObject("REMOVE_MEMBERSHIPS")
pubnub_get_members_ex == GetObjects("GET_MEMBERS")
pubnub_add_members == [SendObject("ADD_MEMBERS") EXCEPT !.early = {"trans"}]
pubnub_set_members_ex == SendObject("SET_MEMBERS")
pubnub_remove_members_ex == SendObject("REMOVE_MEMBERS")

\* The calls by kind: calls of one kind differ in their trans only
GetCalls ==
    {pubnub_publish, pubnub_signal, pubnub_leave, pubnub_time, pubnub_history,
     pubnub_here_now, pubnub_global_here_now, pubnub_where_now, pubnub_set_state,
     pubnub_state_get, pubnub_remove_channel_group, pubnub_remove_channel_from_group,
     pubnub_add_channel_to_group, pubnub_list_channel_group, pubnub_signal_ex,
     pubnub_here_now_ex, pubnub_global_here_now_ex, pubnub_history_ex,
     pubnub_message_counts, pubnub_fetch_history, pubnub_get_message_actions,
     pubnub_history_with_message_actions}
ChannelCalls ==
    {pubnub_subscribe, pubnub_heartbeat, pubnub_subscribe_ex, heartbeat_with_state,
     pubnub_subscribe_v2, pubnub_subscribe_with_state}
PublishCalls ==
    {pubnub_publish_ex("GET", FALSE), pubnub_publish_ex("POST", FALSE),
     pubnub_publish_ex("POST", TRUE)}
ActionCalls ==
    {pubnub_delete_messages, pubnub_add_message_action_str, pubnub_remove_message_action,
     pubnub_get_message_actions_more, pubnub_history_with_message_actions_more}
TokenCalls == {pubnub_grant_token, pubnub_revoke_token}
ObjectCalls ==
    {pubnub_getall_uuidmetadata_ex, pubnub_set_uuidmetadata, pubnub_get_uuidmetadata,
     pubnub_remove_uuidmetadata, pubnub_getall_channelmetadata_ex,
     pubnub_set_channelmetadata, pubnub_get_channelmetadata,
     pubnub_remove_channelmetadata, pubnub_get_memberships_ex, pubnub_set_memberships_ex,
     pubnub_remove_memberships_ex, pubnub_get_members_ex, pubnub_add_members,
     pubnub_set_members_ex, pubnub_remove_members_ex}
API == GetCalls \cup ChannelCalls \cup PublishCalls \cup ActionCalls
           \cup TokenCalls \cup ObjectCalls

\* Two calls do the same to a context but for their trans
SameKind(c, d) == [c EXCEPT !.trans = d.trans, !.requires = d.requires] = d

\* What a call puts on the wire once prepared: HTTP_request_has_body
HasBody(verb) == verb \in {"POST", "PATCH"}

\* pubnub_endpoint_from_transaction_: the group of calls a transaction counts
\* among when the application excludes groups from being retried
pubnub_endpoint_from_transaction_(trans) ==
    CASE trans \in {"SUBSCRIBE", "SUBSCRIBE_V2"} -> "SUBSCRIBE"
      [] trans \in {"PUBLISH", "SIGNAL"} -> "MESSAGE_SEND"
      [] trans \in {"WHERENOW", "GLOBAL_HERENOW", "HERENOW", "LEAVE", "HEARTBEAT",
                    "SET_STATE", "STATE_GET"} -> "PRESENCE"
      [] trans \in {"HISTORY", "FETCH_HISTORY", "MESSAGE_COUNTS",
                    "HISTORY_WITH_ACTIONS"} -> "MESSAGE_STORAGE"
      [] trans \in {"REMOVE_CHANNEL_GROUP", "REMOVE_CHANNEL_FROM_GROUP",
                    "ADD_CHANNEL_TO_GROUP", "LIST_CHANNEL_GROUP"} -> "CHANNEL_GROUPS"
      [] trans \in {c.trans : c \in ObjectCalls} -> "APP_CONTEXT"
      [] trans \in {"ADD_ACTION", "REMOVE_ACTION", "GET_ACTIONS"} -> "MESSAGE_REACTIONS"
      [] trans \in {"GRANT_TOKEN", "REVOKE_TOKEN"} -> "PAM"
      [] OTHER -> "UNKNOWN"
=============================================================================
