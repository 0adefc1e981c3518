------------------------------ MODULE MCInputs ------------------------------
(***************************************************************************)
(* A small instance of Inputs: workloads that are run side by side.        *)
(***************************************************************************)
EXTENDS Inputs

Ask(m, t, n) == [method |-> m, target |-> t, payload |-> n]
Fifo(text) == [type |-> "fifo", text |-> text]
Socket == [type |-> "socket", text |-> <<>>]
Set(name, value) == <<name, Equals, value, NewLine>>

NoInputs == [configured |-> <<>>, callers |-> <<>>]
NoClients == <<>>

Load(conversation, plan) == [conversation |-> conversation, plan |-> plan]

MCWorkloads == {
    \* a request after or beside one that is refused at its first line; one refused at its last
    Load(<<Ask("options", "t1", 1), Ask("get", "t2", 0)>>, NoInputs),
    Load(<<Ask("post", "t1", 0)>>, NoInputs),
    \* payloads within and above the limit
    Load(<<Ask("post", "t1", 5)>>, NoInputs),
    Load(<<Ask("post", "t1", 9)>>, NoInputs),
    \* lines of one writer, with a control character, and one that is too long
    Load(NoClients,
         [configured |-> <<Fifo(Set("a", "1") \o <<Unprinted>> \o Set("b", "2")
                                  \o <<"a", "a", "a", "a", "a", "a", "a", NewLine>>)>>,
          callers |-> <<>>]),
    \* clients that follow each other, the first without an end of line
    Load(NoClients,
         [configured |-> <<Socket>>, callers |-> <<<<"a", Equals>>, Set("b", "2")>>]),
    \* both
    Load(<<Ask("options", "t1", 0)>>,
         [configured |-> <<Socket>>, callers |-> <<<<"b", NewLine>>>>])}

MCConversations == {w.conversation : w \in MCWorkloads}
MCPlans == {w.plan : w \in MCWorkloads}
=============================================================================
