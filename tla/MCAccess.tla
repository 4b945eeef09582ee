------------------------------ MODULE MCAccess ------------------------------
(* A small instance of Access: one chatroom, one account, one command. *)
EXTENDS Access, TLC

CONSTANTS m1, plugin, command, workspace, bot, room

Command == [actor |-> m1,
            where |-> [s \in AclScopeType |->
                         CASE s = "WORKSPACE" -> workspace [] s = "BOT_ACCOUNT" -> bot
                           [] s = "CHATROOM" -> room [] s = "CONTACT" -> None],
            resource |-> <<"COMMAND", command>>, parent |-> plugin]

Rule(principal, effect, locked, scope, resource) ==
  [principal |-> principal, epoch |-> NoEpoch, effect |-> effect, locked |-> locked,
   scope |-> scope, resource |-> resource]

\* One member may use the plugin; for a while nobody may use anything.
Allowed == Rule(m1, "ALLOW", FALSE, <<"CHATROOM", room>>, <<"PLUGIN", plugin>>)
Blocked == Rule(Anybody, "DENY", TRUE, <<"WORKSPACE", workspace>>, <<"CATEGORY", "*">>)
Shapes == {Allowed, Blocked}
Passing == {Blocked}

Commands == {Command}
Symmetric == Permutations(Txns) \cup Permutations(RuleIds)
=============================================================================
