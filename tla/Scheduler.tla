------------------------------ MODULE Scheduler ------------------------------
(***************************************************************************)
(* The scheduler contract: a store of triggers, the rebates it holds in    *)
(* escrow for them, and the messages it dispatches when one is executed.   *)
(*                                                                         *)
(* A transaction is a stack of activations.  Each activation is an account *)
(* outside the scheduler (a user, a keeper, a target contract) together    *)
(* with the work the scheduler still has to do on its behalf: the ids it   *)
(* asked to execute, then the messages the scheduler's response carries.   *)
(* Messages are dispatched one at a time and depth first, so a target may  *)
(* call the scheduler again before the rebate of its own trigger is paid.  *)
(* What a failing target did is undone by restoring the state saved when   *)
(* it was called; the scheduler replies to the error and goes on.          *)
(***************************************************************************)
EXTENDS Integers, Sequences, FiniteSets

CONSTANTS
  Users,            \* accounts that send transactions
  Targets,          \* contracts a trigger may call: any contract at all
  SCHEDULER,
  NONE,             \* an open end of a query's range
  Commands,         \* the CreateTriggerMsgs that may be sent
  Batches,          \* the lists of ids that may be executed
  MaxBatch,         \* bound: the ids in one Execute
  Hash(_, _, _, _), \* DefaultHasher over owner, condition, msg and address
  MaxRebate,        \* bound: the funds sent with one message
  InitialBalance,   \* bound: what each account starts with
  MaxExecutors,     \* MAX_EXECUTORS
  DefaultLimit,     \* the triggers a query returns unless told otherwise
  MaxU64,           \* u64::MAX, the index key of a trigger of the other kind
  NanosPerSecond,
  MaxHeight,        \* bound: the last block
  MaxCreated,       \* bound: triggers ever created
  MaxDepth          \* bound: nesting of calls (gas, in the chain)

Accounts == Users \cup Targets

Kinds == {"timestamp", "height", "other"}

Condition == [kind : Kinds, at : Nat]

Command == [condition        : Condition,
            msg              : {"execute"},
            contract_address : Targets,
            executors        : SUBSET Accounts]

VARIABLES
  triggers,  \* TRIGGERS: id -> trigger
  bank,      \* the balance of every account and of the scheduler
  stranded,  \* history: funds sent along with Execute, which nothing returns
  created,   \* history: the number of triggers created
  fate,      \* history: what became of each trigger ever created
  calls,     \* the activations of the transaction under way
  height,    \* env.block.height
  time       \* env.block.time, in nanoseconds

vars == <<triggers, bank, stranded, created, fate, calls, height, time>>

Amounts == 0 .. MaxRebate

-----------------------------------------------------------------------------
(* Triggers *)

Trigger == [owner            : Accounts,
            condition        : Condition,
            contract_address : Targets,
            executors        : SUBSET Accounts,
            execution_rebate : Amounts,
            born             : 1 .. MaxCreated]

\* The id distinguishes timestamps by the second; it leaves out the executors,
\* the rebate and the jitter.
IdKey(condition) ==
  IF condition.kind = "timestamp" THEN condition.at \div NanosPerSecond
                                  ELSE condition.at

TriggerId(owner, cmd) ==
  Hash(owner, <<cmd.condition.kind, IdKey(cmd.condition)>>, cmd.msg,
       cmd.contract_address)

ASSUME SchedulerAssumption ==
  /\ SCHEDULER \notin Accounts
  /\ Commands \subseteq Command
  /\ MaxBatch \in Nat \ {0}
  /\ \A b \in Batches : b \in Seq(Nat) /\ Len(b) <= MaxBatch
  /\ \A o \in Accounts, cmd \in Commands : TriggerId(o, cmd) \in Nat
  /\ MaxRebate \in Nat
  /\ InitialBalance \in Nat
  /\ MaxU64 \in Nat
  /\ NONE \notin Nat
  /\ DefaultLimit \in Nat
  /\ NanosPerSecond \in Nat \ {0}
  /\ MaxHeight \in Nat
  /\ MaxCreated \in Nat
  /\ MaxDepth \in Nat \ {0}

IsSatisfied(condition) ==
  \/ condition.kind = "timestamp" /\ time >= condition.at
  \/ condition.kind = "height" /\ height >= condition.at

MayExecute(t, sender) == t.executors = {} \/ sender \in t.executors

Without(id) == [i \in DOMAIN triggers \ {id} |-> triggers[i]]

-----------------------------------------------------------------------------
(* The stack of activations *)

Message == [kind : {"call"}, to : Targets, amount : {0}, born : 1 .. MaxCreated]
             \cup [kind : {"send"}, to : Accounts, amount : 1 .. MaxRebate,
                   born : 1 .. MaxCreated]

World == [triggers |-> triggers, bank |-> bank, stranded |-> stranded,
          created |-> created, fate |-> fate]

Activation(a, world) ==
  [actor |-> a, ids |-> <<>>, messages |-> <<>>, sent |-> 0, saved |-> world]

Depth == Len(calls)

top == calls[Depth]

\* The account on top of the stack is running: it may call the scheduler.
Running == /\ calls # <<>>
           /\ top.ids = <<>>
           /\ top.sent = Len(top.messages)

\* The scheduler is dispatching the messages of its response.
Dispatching == /\ calls # <<>>
               /\ top.ids = <<>>
               /\ top.sent < Len(top.messages)

message == top.messages[top.sent + 1]

Pay(from, to, amount) ==
  [bank EXCEPT ![from] = @ - amount, ![to] = @ + amount]

Restore(w) ==
  /\ triggers' = w.triggers
  /\ bank' = w.bank
  /\ stranded' = w.stranded
  /\ created' = w.created
  /\ fate' = w.fate

Pop == SubSeq(calls, 1, Depth - 1)

-----------------------------------------------------------------------------

Init ==
  /\ triggers = [i \in {} |-> 0]
  /\ bank = [a \in Accounts \cup {SCHEDULER} |->
               IF a = SCHEDULER THEN 0 ELSE InitialBalance]
  /\ stranded = 0
  /\ created = 0
  /\ fate = [n \in 1 .. MaxCreated |-> "unborn"]
  /\ calls = <<>>
  /\ height = 0
  /\ time = 0

NextBlock ==
  /\ calls = <<>>
  /\ height < MaxHeight
  /\ height' = height + 1
  /\ \E elapsed \in 1 .. NanosPerSecond : time' = time + elapsed
  /\ UNCHANGED <<triggers, bank, stranded, created, fate, calls>>

Begin(u) ==
  /\ calls = <<>>
  /\ calls' = <<Activation(u, World)>>
  /\ UNCHANGED <<triggers, bank, stranded, created, fate, height, time>>

Supported(cmd) ==
  /\ Cardinality(cmd.executors) <= MaxExecutors
  /\ cmd.condition.kind # "other"

RefundAlways(t) ==  \* slip: no check that the rebate is not empty
  <<[kind |-> "send", to |-> t.owner, amount |-> t.execution_rebate,
     born |-> t.born]>>

RefundForgotten(t) == <<>>  \* slip: the trigger is overwritten, its rebate kept

Refund(t) ==
  IF t.execution_rebate = 0
    THEN <<>>
    ELSE <<[kind |-> "send", to |-> t.owner, amount |-> t.execution_rebate,
            born |-> t.born]>>

\* A rejected Create changes nothing: the account goes on or fails on its own.
Create(cmd, funds) ==
  LET sender == top.actor
      id == TriggerId(sender, cmd)
  IN /\ Running
     /\ created < MaxCreated
     /\ Supported(cmd)
     /\ id \in DOMAIN triggers => triggers[id].owner = sender
     /\ funds <= bank[sender]
     /\ bank' = Pay(sender, SCHEDULER, funds)
     /\ created' = created + 1
     /\ triggers' = [i \in DOMAIN triggers \cup {id} |->
                       IF i = id
                         THEN [owner            |-> sender,
                               condition        |-> cmd.condition,
                               contract_address |-> cmd.contract_address,
                               executors        |-> cmd.executors,
                               execution_rebate |-> funds,
                               born             |-> created + 1]
                         ELSE triggers[i]]
     /\ fate' = [n \in DOMAIN fate |->
                   IF n = created + 1 THEN "stored"
                   ELSE IF id \in DOMAIN triggers /\ n = triggers[id].born
                     THEN "replaced" ELSE fate[n]]
     /\ calls' = [calls EXCEPT ![Depth].sent = 0,
                               ![Depth].messages =
                                 IF id \in DOMAIN triggers
                                   THEN Refund(triggers[id]) ELSE <<>>]
     /\ UNCHANGED <<stranded, height, time>>

\* Execute does not look at the funds sent with it.
Execute(ids, funds) ==
  /\ Running
  /\ funds <= bank[top.actor]
  /\ bank' = Pay(top.actor, SCHEDULER, funds)
  /\ stranded' = stranded + funds
  /\ calls' = [calls EXCEPT ![Depth].ids = ids,
                            ![Depth].messages = <<>>,
                            ![Depth].sent = 0]
  /\ UNCHANGED <<triggers, created, fate, height, time>>

Executable(id) ==
  /\ id \in DOMAIN triggers
  /\ MayExecute(triggers[id], top.actor)
  /\ IsSatisfied(triggers[id].condition)

\* Slip: the rebate goes to the executor and back to the owner.
CallAndRebates(t) ==
  LET to(a) == [kind |-> "send", to |-> a, amount |-> t.execution_rebate,
                born |-> t.born]
      call == [kind |-> "call", to |-> t.contract_address, amount |-> 0,
               born |-> t.born]
  IN IF t.execution_rebate = 0 THEN <<call>>
                               ELSE <<call, to(top.actor), to(t.owner)>>

CallAndRebate(t) ==
  LET call == [kind |-> "call", to |-> t.contract_address, amount |-> 0,
               born |-> t.born]
      rebate == [kind |-> "send", to |-> top.actor,
                 amount |-> t.execution_rebate, born |-> t.born]
  IN IF t.execution_rebate = 0 THEN <<call>> ELSE <<call, rebate>>

\* One turn of the loop over the ids.  The whole loop runs before anything is
\* dispatched: nothing else happens while ids are left.
SkipTrigger ==
  /\ calls # <<>>
  /\ top.ids # <<>>
  /\ ~Executable(Head(top.ids))
  /\ calls' = [calls EXCEPT ![Depth].ids = Tail(@)]
  /\ UNCHANGED <<triggers, bank, stranded, created, fate, height, time>>

TakeTriggerKept ==  \* slip: the trigger is not deleted before its call
  /\ calls # <<>>
  /\ top.ids # <<>>
  /\ Executable(Head(top.ids))
  /\ calls' = [calls EXCEPT ![Depth].ids = Tail(@),
                            ![Depth].messages =
                              @ \o CallAndRebate(triggers[Head(top.ids)])]
  /\ fate' = [fate EXCEPT ![triggers[Head(top.ids)].born] = "taken"]
  /\ UNCHANGED <<triggers, bank, stranded, created, height, time>>

TakeTrigger ==
  /\ calls # <<>>
  /\ top.ids # <<>>
  /\ Executable(Head(top.ids))
  /\ triggers' = Without(Head(top.ids))
  /\ calls' = [calls EXCEPT ![Depth].ids = Tail(@),
                            ![Depth].messages =
                              @ \o CallAndRebate(triggers[Head(top.ids)])]
  /\ fate' = [fate EXCEPT ![triggers[Head(top.ids)].born] = "taken"]
  /\ UNCHANGED <<bank, stranded, created, height, time>>

\* The bank's refusal of a send it cannot cover is left out: PaymentsCovered
\* says that it never has to refuse.
SendRebate ==
  /\ Dispatching
  /\ message.kind = "send"
  /\ bank' = Pay(SCHEDULER, message.to, message.amount)
  /\ calls' = [calls EXCEPT ![Depth].sent = @ + 1]
  /\ UNCHANGED <<triggers, stranded, created, fate, height, time>>

Called(born) == [fate EXCEPT ![born] = "called"]

\* reply_on_error: the target runs in an activation of its own, saved so that
\* its failure undoes what it did and nothing else.
CallTarget ==
  /\ Dispatching
  /\ message.kind = "call"
  /\ Depth < MaxDepth
  /\ fate' = Called(message.born)
  /\ calls' = Append([calls EXCEPT ![Depth].sent = @ + 1],
                     Activation(message.to,
                                [World EXCEPT !.fate = Called(message.born)]))
  /\ UNCHANGED <<triggers, bank, stranded, created, height, time>>

\* The target fails before it does anything; at the bound on nesting it must.
TargetFailsAtOnce ==
  /\ Dispatching
  /\ message.kind = "call"
  /\ fate' = Called(message.born)
  /\ calls' = [calls EXCEPT ![Depth].sent = @ + 1]
  /\ UNCHANGED <<triggers, bank, stranded, created, height, time>>

Return ==
  /\ Running
  /\ calls' = Pop
  /\ UNCHANGED <<triggers, bank, stranded, created, fate, height, time>>

Fail ==
  /\ Running
  /\ Restore(top.saved)
  /\ calls' = Pop
  /\ UNCHANGED <<height, time>>

Next ==
  \/ NextBlock
  \/ \E u \in Users : Begin(u)
  \/ \E cmd \in Commands, funds \in Amounts : Create(cmd, funds)
  \/ \E ids \in Batches, funds \in Amounts : Execute(ids, funds)
  \/ SkipTrigger
  \/ TakeTrigger
  \/ SendRebate
  \/ CallTarget
  \/ TargetFailsAtOnce
  \/ Return
  \/ Fail

Spec == Init /\ [][Next]_vars

-----------------------------------------------------------------------------
(* The query keepers poll *)

\* Slip: the index holds nanoseconds, the bounds of the query are seconds.
IndexKeyInNanos(kind, t) ==
  IF t.condition.kind = kind THEN t.condition.at ELSE MaxU64

\* The index of one kind also holds the triggers of the other, at u64::MAX.
IndexKey(kind, t) ==
  IF t.condition.kind = kind THEN IdKey(t.condition) ELSE MaxU64

Before(kind, i, j) ==
  LET ki == IndexKey(kind, triggers[i])
      kj == IndexKey(kind, triggers[j])
  IN ki < kj \/ (ki = kj /\ i < j)

\* start and end are index keys, and end may be NONE.
Filtered(kind, start, end, limit) ==
  LET window == {i \in DOMAIN triggers :
                   LET k == IndexKey(kind, triggers[i])
                   IN k >= start /\ (end # NONE => k <= end)}
  IN {i \in window : Cardinality({j \in window : Before(kind, j, i)}) < limit}

-----------------------------------------------------------------------------
(* Properties *)

Fates == {"unborn", "stored", "taken", "called", "replaced"}

TriggerStore(ts) ==
  /\ DOMAIN ts \subseteq Nat
  /\ IsFiniteSet(DOMAIN ts)
  /\ ts \in [DOMAIN ts -> Trigger]

WorldOK(w) ==
  /\ TriggerStore(w.triggers)
  /\ w.bank \in [Accounts \cup {SCHEDULER} -> Int]
  /\ w.stranded \in Nat
  /\ w.created \in 0 .. MaxCreated
  /\ w.fate \in [1 .. MaxCreated -> Fates]

CallOK(c) ==
  /\ c.actor \in Accounts
  /\ c.ids \in Seq(Nat)
  /\ c.messages \in Seq(Message)
  /\ Len(c.messages) + 2 * Len(c.ids) <= 2 * MaxBatch
  /\ c.sent \in 0 .. Len(c.messages)
  /\ WorldOK(c.saved)

TypeOK ==
  /\ WorldOK(World)
  /\ Depth \in 0 .. MaxDepth
  /\ DOMAIN calls = 1 .. Depth
  /\ \A l \in 1 .. Depth : CallOK(calls[l])
  /\ height \in 0 .. MaxHeight
  /\ time \in Nat

\* Rebates are counted coin by coin, so that a sum is a cardinality.
Escrowed(ts) ==
  {c \in (DOMAIN ts) \X (1 .. MaxRebate) : c[2] <= ts[c[1]].execution_rebate}

\* Where the messages stand that the d lowest activations of a stack cs have
\* not dispatched yet.
Unsent(cs, d) ==
  {p \in (1 .. d) \X (1 .. 2 * MaxBatch) :
     p[2] > cs[p[1]].sent /\ p[2] <= Len(cs[p[1]].messages)}

MessageAt(cs, p) == cs[p[1]].messages[p[2]]

Payable(cs, d) ==
  {c \in ((1 .. d) \X (1 .. 2 * MaxBatch)) \X (1 .. MaxRebate) :
     /\ c[1] \in Unsent(cs, d)
     /\ MessageAt(cs, c[1]).kind = "send"
     /\ c[2] <= MessageAt(cs, c[1]).amount}

Owed(w, cs, d) ==
  Cardinality(Escrowed(w.triggers)) + Cardinality(Payable(cs, d)) + w.stranded

\* The scheduler holds exactly the rebates of the stored triggers, plus those it
\* is about to send, plus what was sent along with Execute: whatever targets do
\* when they are called in the middle of a batch, and whatever is rolled back.
Solvency == bank[SCHEDULER] = Owed(World, calls, Depth)

\* So no batch is ever undone because a rebate or a refund cannot be paid.
PaymentsCovered ==
  Dispatching /\ message.kind = "send" => message.amount <= bank[SCHEDULER]

UnsentCalls ==
  {p \in Unsent(calls, Depth) : MessageAt(calls, p).kind = "call"}

\* Each trigger ever created is in one place: stored under one id, or in one
\* message about to call its target, or gone because it was called (once) or
\* replaced.  Nothing executes twice, and nothing is dropped unexecuted: not by
\* an id listed twice, a target that calls back, nor one that fails.
OneFate ==
  /\ \A i, j \in DOMAIN triggers :
       triggers[i].born = triggers[j].born => i = j
  /\ \A p, q \in UnsentCalls :
       MessageAt(calls, p).born = MessageAt(calls, q).born => p = q
  /\ {triggers[i].born : i \in DOMAIN triggers} =
       {n \in 1 .. MaxCreated : fate[n] = "stored"}
  /\ {MessageAt(calls, p).born : p \in UnsentCalls} =
       {n \in 1 .. MaxCreated : fate[n] = "taken"}

Now(kind) == IF kind = "timestamp" THEN time \div NanosPerSecond ELSE height

\* A keeper that asks for the triggers up to the present, in the unit of the
\* index, is told of each one that is due, unless more than a page of triggers
\* comes before it.
DueIsListed ==
  \A kind \in Kinds \ {"other"}, i \in DOMAIN triggers :
    /\ triggers[i].condition.kind = kind
    /\ IsSatisfied(triggers[i].condition)
    /\ Cardinality({j \in DOMAIN triggers : Before(kind, j, i)}) < DefaultLimit
    => i \in Filtered(kind, 0, Now(kind), DefaultLimit)

=============================================================================
