------------------------------ MODULE MCModeration ------------------------------
(***************************************************************************)
(* The stranger is 2, his message's mapping 1, the owner 9; the commands   *)
(* come from the owner, from the owner in a group, and from someone else.  *)
(***************************************************************************)
EXTENDS Moderation, TLC

Text(name, args) == [name |-> name, args |-> args]
FromOwner(text)  == [sender |-> OwnerID, chat |-> "private", text |-> text]

MCUpdates ==
    {FromOwner(Text("ban", <<2, Word>>)), FromOwner(Text("mute", <<2>>)),
     FromOwner(Text("unban", <<2>>)), FromOwner(Text("unmute", <<2>>)),
     FromOwner(Text("ban", <<5>>)), FromOwner(Text("unban", <<2, Word>>)),
     FromOwner(Text("reply", <<2, Word>>)), FromOwner(Text("recent", <<60>>)),
     [sender |-> OwnerID, chat |-> "group", text |-> Text("mute", <<2>>)],
     [sender |-> 5, chat |-> "private", text |-> Text("unban", <<2>>)]}

Symmetry == Permutations(Procs)
================================================================================
