---------------------------- MODULE MCSmsInbox -----------------------------
(* Messages for the model-checking instances of SmsInbox.                  *)
EXTENDS SmsInbox

SMS(stamp, text) == [push |-> FALSE, stamp |-> stamp, text |-> text, data |-> "none"]
Push(data) == [push |-> TRUE, stamp |-> NoStamp, text |-> NoText, data |-> data]

\* A text message and an MMS notification.
TextAndPush == {SMS("9:00", "hello"), Push("T1")}
=============================================================================
