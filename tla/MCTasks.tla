------------------------------ MODULE MCTasks ------------------------------
EXTENDS Tasks, TLC

CONSTANTS r, a, b, m1, m2, m3, h1, h2

spawn(t) == [op |-> "spawn", who |-> t]
send(t, m) == [op |-> "send", who |-> t, msg |-> m]
put(t) == [op |-> "put", who |-> t]
call(c) == [op |-> c]
vfs(hows) == [op |-> "vfs", hows |-> hows]

\* Every operation, on drivers with and without the optional functions.
AnyHow == [type : Types, drv : {{}, {"lseek", "ioctl", "flush"}}, sync : BOOLEAN]
ReadOnly == {[type |-> "read", drv |-> {}, sync |-> FALSE]}

Prog(pr, pa, pb) == (r :> pr) @@ (a :> pa) @@ (b :> pb)

Workloads == {
  \* Both children use the pool; the parent waits for both.
  Prog(<<spawn(a), spawn(b), call("recv"), call("recv")>>,
       <<vfs(ReadOnly), send(r, m1), put(r)>>,
       <<vfs(ReadOnly), send(r, m2), put(r)>>),
  \* The parent leaves after one message: another is refused or dropped.
  Prog(<<spawn(a), spawn(b), call("recv")>>,
       <<send(r, m1), put(r)>>,
       <<send(r, m2), send(r, m3), put(r)>>),
  \* The parent is in the pool when messages come, and polls.
  Prog(<<spawn(a), spawn(b), vfs(AnyHow), call("tryrecv"), send(a, m3)>>,
       <<send(r, m1), call("recv"), put(r)>>,
       <<send(r, m2), put(r)>>)}
=============================================================================
