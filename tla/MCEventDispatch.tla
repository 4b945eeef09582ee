--------------------------- MODULE MCEventDispatch --------------------------
(* Instances of EventDispatch for TLC. *)
EXTENDS EventDispatch, TLC

CONSTANTS w1, w2, p1, r1

Reply(key, text) == [key |-> key, text |-> text]

\* One reply, or two of which the second clashes with it.
SomeResults == {<<Reply("a", "x")>>, <<Reply("b", "x"), Reply("a", "y")>>}
OneReply == {<<Reply("a", "x")>>}

Talk(kinds) == [kind : kinds, command : {FALSE}]

\* A message of a chat room or a private one, then a callback of any kind, both
\* from one wxid.
TwoCallbacks == 1..2
CallbackContents == <<Talk({"group", "private"}), Talk(Kinds)>>
CallbackRooms == <<r1, r1>>
CallbackActors == <<p1, p1>>
SyncedContacts == {<<"private", p1>>}
CallbackRoutes == <<{1}, {1}>>

\* One private message, which may be a command, for two plugins.
OneMessage == 1..1
MessageContents == <<[kind : {"private"}, command : BOOLEAN]>>
MessageRooms == <<r1>>
MessageActors == <<p1>>
MessageRoutes == <<{1, 2}>>
TwoDeployments == 1..2

WorkerSymmetry == Permutations(Workers)
=============================================================================
