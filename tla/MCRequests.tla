----------------------------- MODULE MCRequests -----------------------------
EXTENDS Requests

\* One call of every kind
MCCalls ==
    {pubnub_get_message_actions, pubnub_get_message_actions_more,
     pubnub_subscribe, pubnub_publish_ex("POST", TRUE), pubnub_publish_ex("POST", FALSE),
     pubnub_publish_ex("GET", FALSE),
     pubnub_delete_messages, pubnub_add_message_action_str, pubnub_remove_message_action,
     pubnub_grant_token, pubnub_revoke_token, pubnub_set_uuidmetadata,
     pubnub_get_uuidmetadata, pubnub_add_members, pubnub_set_members_ex}
\* Calls that are not made do to the context what one of these does
ASSUME EveryKindIsCalled == \A c \in API : \E d \in MCCalls : SameKind(c, d)

MCReplies == {[code |-> 200, after |-> 0], [code |-> 429, after |-> 3],
              [code |-> 429, after |-> 65]}
MCFewReplies == {[code |-> 200, after |-> 0], [code |-> 500, after |-> 0]}
MCConfigurations == {[policy |-> "exponential", max_retries |-> 2, minimum_delay |-> 2,
                      maximum_delay |-> 150, excluded |-> {"PAM"}]}
MCOnce == {[policy |-> "linear", max_retries |-> 1, minimum_delay |-> 2,
            maximum_delay |-> 0, excluded |-> {}]}
MCFewCalls == {pubnub_time}
=============================================================================
