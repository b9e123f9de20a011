--------------------------- MODULE ExecSessionProofs ---------------------------
(***************************************************************************)
(* Safety of an interactive shell for any number of messages and any size  *)
(* of the buffers: it implements RemoteShell.                              *)
(*                                                                         *)
(* The messages are numbered, and each queue holds, in order, the numbers  *)
(* after those the next queue on the way holds or has delivered (Follows,  *)
(* Fed, Waiting).  A queue counts only while it can still be delivered:    *)
(* what is lost is lost for good, with everything behind it.               *)
(***************************************************************************)
EXTENDS ExecSession, SequenceTheorems, TLAPS

-----------------------------------------------------------------------------
(* Queues of numbered messages. *)

(* The messages of these kinds in q have the numbers r + 1 to t, in order.  *)
Follows(q, kinds, r, t) ==
    /\ r <= t
    /\ \A i \in DOMAIN q : q[i].kind \in kinds => q[i].n > r /\ q[i].n <= t
    /\ \A i, j \in DOMAIN q :
          i < j /\ q[i].kind \in kinds /\ q[j].kind \in kinds => q[i].n < q[j].n
    /\ \A n \in (r + 1)..t : \E i \in DOMAIN q : q[i].kind \in kinds /\ q[i].n = n

Rises(s) == \A i, j \in DOMAIN s : i < j => s[i] < s[j]

Elements(s) == {s[i] : i \in DOMAIN s}

KindsOf(q) == {q[i].kind : i \in DOMAIN q}

(* "connected" is announced once, before anything but a close frame; seen   *)
(* are the kinds of what came before q.                                     *)
Led(q, seen) ==
    \A i \in DOMAIN q :
       /\ q[i].kind = "connected" =>
             "connected" \notin seen /\ \A j \in DOMAIN q : j < i => q[j].kind = "eof"
       /\ q[i].kind \notin {"connected", "eof"} =>
             "connected" \in seen \/ \E j \in DOMAIN q : j < i /\ q[j].kind = "connected"

Kinds == {"input", "big", "odd", "close", "eof", "connected", "output", "error", "closed"}

Messages == [kind : Kinds, n : Nat]

(* What a sequence is after Append.                                         *)
LEMMA Appended ==
    ASSUME NEW M, NEW q \in Seq(M), NEW m \in M
    PROVE  /\ Append(q, m) \in Seq(M)
           /\ Len(Append(q, m)) = Len(q) + 1
           /\ DOMAIN Append(q, m) = 1..(Len(q) + 1)
           /\ DOMAIN q = 1..Len(q) /\ Len(q) \in Nat
           /\ \A i \in 1..Len(q) : Append(q, m)[i] = q[i] /\ q[i] \in M
           /\ Append(q, m)[Len(q) + 1] = m
    BY AppendProperties, LenProperties, ElementOfSeq

(* What a sequence is after Tail.                                           *)
LEMMA Shortened ==
    ASSUME NEW M, NEW q \in Seq(M), q # <<>>
    PROVE  /\ Tail(q) \in Seq(M) /\ Head(q) \in M /\ Head(q) = q[1]
           /\ Len(Tail(q)) = Len(q) - 1
           /\ DOMAIN Tail(q) = 1..(Len(q) - 1)
           /\ DOMAIN q = 1..Len(q) /\ Len(q) \in Nat /\ Len(q) > 0
           /\ \A i \in 1..(Len(q) - 1) : Tail(q)[i] = q[i + 1]
           /\ \A i \in 1..Len(q) : q[i] \in M
    BY HeadTailProperties, LenProperties, ElementOfSeq, EmptySeq

(* Holds is the set of the short sequences.                                 *)
LEMMA HoldsDef ==
    ASSUME NEW M, NEW q, Cap \in Nat
    PROVE  q \in Holds(M) <=> q \in Seq(M) /\ Len(q) <= Cap
<1>1. ASSUME q \in Holds(M) PROVE q \in Seq(M) /\ Len(q) <= Cap
  <2>1. PICK k \in 0..Cap : q \in [1..k -> M]
    BY <1>1 DEF Holds
  <2> QED BY <2>1, SeqDef
<1>2. ASSUME q \in Seq(M), Len(q) <= Cap PROVE q \in Holds(M)
  <2>1. q \in [1..Len(q) -> M] /\ Len(q) \in 0..Cap
    BY <1>2, LenProperties
  <2> QED BY <2>1 DEF Holds
<1> QED BY <1>1, <1>2

(* An empty queue holds nothing.                                            *)
LEMMA FollowsEmpty ==
    ASSUME NEW kinds, NEW r \in Nat
    PROVE  Follows(<<>>, kinds, r, r)
    BY DEF Follows

(* The next number goes to the end of the queue.                            *)
LEMMA FollowsAppend ==
    ASSUME NEW q \in Seq(Messages), NEW m \in Messages, NEW kinds,
           NEW r \in Nat, NEW t \in Nat, Follows(q, kinds, r, t),
           m.kind \in kinds, m.n = t + 1
    PROVE  Follows(Append(q, m), kinds, r, t + 1)
<1> DEFINE s == Append(q, m)
<1>1. /\ DOMAIN s = 1..(Len(q) + 1) /\ DOMAIN q = 1..Len(q) /\ Len(q) \in Nat
      /\ \A i \in 1..Len(q) : s[i] = q[i] /\ q[i] \in Messages
      /\ s[Len(q) + 1] = m
  BY Appended
<1>2. r <= t + 1
  BY DEF Follows
<1>3. \A i \in DOMAIN s : s[i].kind \in kinds => s[i].n > r /\ s[i].n <= t + 1
  BY <1>1 DEF Follows, Messages
<1>4. \A i, j \in DOMAIN s :
         i < j /\ s[i].kind \in kinds /\ s[j].kind \in kinds => s[i].n < s[j].n
  BY <1>1 DEF Follows, Messages
<1>5. ASSUME NEW n \in (r + 1)..(t + 1)
      PROVE \E i \in DOMAIN s : s[i].kind \in kinds /\ s[i].n = n
  BY <1>1, <1>5 DEF Follows
<1> QED BY <1>2, <1>3, <1>4, <1>5 DEF Follows

(* Messages of other kinds do not count.                                    *)
LEMMA FollowsOther ==
    ASSUME NEW q \in Seq(Messages), NEW m \in Messages, NEW kinds,
           NEW r \in Nat, NEW t \in Nat, Follows(q, kinds, r, t),
           m.kind \notin kinds
    PROVE  Follows(Append(q, m), kinds, r, t)
<1> DEFINE s == Append(q, m)
<1>1. /\ DOMAIN s = 1..(Len(q) + 1) /\ DOMAIN q = 1..Len(q) /\ Len(q) \in Nat
      /\ \A i \in 1..Len(q) : s[i] = q[i] /\ q[i] \in Messages
      /\ s[Len(q) + 1] = m
  BY Appended
<1>2. \A n \in (r + 1)..t : \E i \in DOMAIN s : s[i].kind \in kinds /\ s[i].n = n
  BY <1>1 DEF Follows
<1>3. \A i \in DOMAIN s : s[i].kind \in kinds => i \in DOMAIN q /\ s[i] = q[i]
  BY <1>1
<1> QED BY <1>2, <1>3 DEF Follows

(* The head has the lowest number, and the rest follows it.                 *)
LEMMA FollowsHead ==
    ASSUME NEW q \in Seq(Messages), NEW kinds,
           NEW r \in Nat, NEW t \in Nat, Follows(q, kinds, r, t),
           q # <<>>, Head(q).kind \in kinds
    PROVE  Head(q).n = r + 1 /\ r + 1 <= t /\ Follows(Tail(q), kinds, r + 1, t)
<1> DEFINE s == Tail(q)
<1>1. /\ DOMAIN s = 1..(Len(q) - 1) /\ DOMAIN q = 1..Len(q) /\ Len(q) \in Nat /\ Len(q) > 0
      /\ \A i \in 1..(Len(q) - 1) : s[i] = q[i + 1]
      /\ \A i \in 1..Len(q) : q[i] \in Messages
      /\ Head(q) = q[1]
  BY Shortened
<1>2. q[1].n > r /\ q[1].n <= t /\ q[1].n \in Nat
  BY <1>1 DEF Follows, Messages
<1>3. \E k \in DOMAIN q : q[k].kind \in kinds /\ q[k].n = r + 1
  <2>1. r + 1 \in (r + 1)..t
    BY <1>2
  <2> QED BY <2>1 DEF Follows
<1>4. q[1].n = r + 1
  BY <1>1, <1>2, <1>3 DEF Follows
<1>5. ASSUME NEW i \in DOMAIN s, s[i].kind \in kinds
      PROVE  s[i].n > r + 1 /\ s[i].n <= t
  <2>1. i + 1 \in DOMAIN q /\ 1 \in DOMAIN q /\ 1 < i + 1 /\ s[i] = q[i + 1]
    BY <1>1
  <2>2. q[1].n < q[i + 1].n /\ q[i + 1].n <= t
    BY <1>1, <1>5, <2>1 DEF Follows
  <2> QED BY <1>4, <2>1, <2>2
<1>6. \A i, j \in DOMAIN s :
         i < j /\ s[i].kind \in kinds /\ s[j].kind \in kinds => s[i].n < s[j].n
  BY <1>1 DEF Follows
<1>7. ASSUME NEW n \in (r + 2)..t
      PROVE \E i \in DOMAIN s : s[i].kind \in kinds /\ s[i].n = n
  <2>1. PICK k \in DOMAIN q : q[k].kind \in kinds /\ q[k].n = n
    BY <1>7 DEF Follows
  <2>2. k # 1 /\ k - 1 \in DOMAIN s /\ s[k - 1] = q[k]
    BY <1>1, <1>4, <2>1
  <2> QED BY <2>1, <2>2
<1> QED BY <1>1, <1>2, <1>4, <1>5, <1>6, <1>7 DEF Follows

(* A head of another kind does not count.                                   *)
LEMMA FollowsTail ==
    ASSUME NEW q \in Seq(Messages), NEW kinds,
           NEW r \in Nat, NEW t \in Nat, Follows(q, kinds, r, t),
           q # <<>>, Head(q).kind \notin kinds
    PROVE  Follows(Tail(q), kinds, r, t)
<1> DEFINE s == Tail(q)
<1>1. /\ DOMAIN s = 1..(Len(q) - 1) /\ DOMAIN q = 1..Len(q) /\ Len(q) \in Nat /\ Len(q) > 0
      /\ \A i \in 1..(Len(q) - 1) : s[i] = q[i + 1]
      /\ Head(q) = q[1]
  BY Shortened
<1>2. \A i, j \in DOMAIN s :
         i < j /\ s[i].kind \in kinds /\ s[j].kind \in kinds => s[i].n < s[j].n
  BY <1>1 DEF Follows
<1>3. ASSUME NEW n \in (r + 1)..t
      PROVE \E i \in DOMAIN s : s[i].kind \in kinds /\ s[i].n = n
  <2>1. PICK k \in DOMAIN q : q[k].kind \in kinds /\ q[k].n = n
    BY <1>3 DEF Follows
  <2>2. k # 1 /\ k - 1 \in DOMAIN s /\ s[k - 1] = q[k]
    BY <1>1, <2>1
  <2> QED BY <2>1, <2>2
<1> QED BY <1>1, <1>2, <1>3 DEF Follows

(* What an appended message adds to the kinds.                              *)
LEMMA KindsAppend ==
    ASSUME NEW q \in Seq(Messages), NEW m \in Messages
    PROVE  KindsOf(Append(q, m)) = KindsOf(q) \cup {m.kind}
    BY Appended, 1 \in 1..1 DEF KindsOf

(* What the head leaves of the kinds.                                       *)
LEMMA KindsTail ==
    ASSUME NEW q \in Seq(Messages), q # <<>>
    PROVE  KindsOf(q) = {Head(q).kind} \cup KindsOf(Tail(q))
<1>1. /\ DOMAIN Tail(q) = 1..(Len(q) - 1) /\ DOMAIN q = 1..Len(q)
      /\ Len(q) \in Nat /\ Len(q) > 0
      /\ \A i \in 1..(Len(q) - 1) : Tail(q)[i] = q[i + 1]
      /\ Head(q) = q[1]
  BY Shortened
<1>2. ASSUME NEW i \in DOMAIN q PROVE q[i].kind \in {Head(q).kind} \cup KindsOf(Tail(q))
  <2>1. i = 1 \/ (i - 1 \in DOMAIN Tail(q) /\ Tail(q)[i - 1] = q[i])
    BY <1>1
  <2> QED BY <1>1, <2>1 DEF KindsOf
<1>3. ASSUME NEW i \in DOMAIN Tail(q) PROVE Tail(q)[i].kind \in KindsOf(q)
  BY <1>1 DEF KindsOf
<1>4. Head(q).kind \in KindsOf(q)
  BY <1>1 DEF KindsOf
<1> QED BY <1>2, <1>3, <1>4 DEF KindsOf

(* What may be appended to a queue that is led by "connected".              *)
LEMMA LedAppend ==
    ASSUME NEW q \in Seq(Messages), NEW m \in Messages, NEW seen, Led(q, seen),
           m.kind = "connected" => "connected" \notin seen \cup KindsOf(q),
           m.kind \notin {"connected", "eof"} => "connected" \in seen \cup KindsOf(q)
    PROVE  Led(Append(q, m), seen)
<1> DEFINE s == Append(q, m)
<1>1. /\ DOMAIN s = 1..(Len(q) + 1) /\ DOMAIN q = 1..Len(q) /\ Len(q) \in Nat
      /\ \A i \in 1..Len(q) : s[i] = q[i]
      /\ s[Len(q) + 1] = m
  BY Appended
<1>2. ASSUME NEW i \in 1..Len(q)
      PROVE  /\ s[i].kind = "connected" =>
                   "connected" \notin seen /\ \A j \in DOMAIN s : j < i => s[j].kind = "eof"
             /\ s[i].kind \notin {"connected", "eof"} =>
                   "connected" \in seen \/ \E j \in DOMAIN s : j < i /\ s[j].kind = "connected"
  BY <1>1, <1>2 DEF Led
<1>3. m.kind = "connected" => \A j \in DOMAIN q : q[j].kind = "eof"
  BY DEF Led, KindsOf
<1>4. m.kind \notin {"connected", "eof"} =>
         "connected" \in seen \/ \E j \in DOMAIN q : q[j].kind = "connected"
  BY DEF KindsOf
<1>5. /\ s[Len(q) + 1].kind = "connected" =>
            "connected" \notin seen
               /\ \A j \in DOMAIN s : j < Len(q) + 1 => s[j].kind = "eof"
      /\ s[Len(q) + 1].kind \notin {"connected", "eof"} =>
            "connected" \in seen
               \/ \E j \in DOMAIN s : j < Len(q) + 1 /\ s[j].kind = "connected"
  BY <1>1, <1>3, <1>4
<1>6. \A i \in DOMAIN s : i \in 1..Len(q) \/ i = Len(q) + 1
  BY <1>1
<1> QED BY <1>2, <1>5, <1>6 DEF Led

(* What the head of a queue led by "connected" is, and what its rest is.    *)
LEMMA LedTail ==
    ASSUME NEW q \in Seq(Messages), NEW seen, Led(q, seen), q # <<>>
    PROVE  /\ Head(q).kind = "connected" => "connected" \notin seen
           /\ Head(q).kind \notin {"connected", "eof"} => "connected" \in seen
           /\ Led(Tail(q), seen \cup {Head(q).kind})
<1> DEFINE s == Tail(q)
<1>1. /\ DOMAIN s = 1..(Len(q) - 1) /\ DOMAIN q = 1..Len(q) /\ Len(q) \in Nat /\ Len(q) > 0
      /\ \A i \in 1..(Len(q) - 1) : s[i] = q[i + 1]
      /\ Head(q) = q[1]
  BY Shortened
<1>2. /\ Head(q).kind = "connected" => "connected" \notin seen
      /\ Head(q).kind \notin {"connected", "eof"} => "connected" \in seen
  BY <1>1 DEF Led
<1>3. ASSUME NEW i \in DOMAIN s, s[i].kind = "connected"
      PROVE  /\ "connected" \notin seen \cup {Head(q).kind}
             /\ \A j \in DOMAIN s : j < i => s[j].kind = "eof"
  <2>1. i + 1 \in DOMAIN q /\ q[i + 1].kind = "connected"
    BY <1>1, <1>3
  <2>2. "connected" \notin seen /\ \A j \in DOMAIN q : j < i + 1 => q[j].kind = "eof"
    BY <2>1 DEF Led
  <2>3. q[1].kind = "eof"
    BY <1>1, <2>2
  <2>4. ASSUME NEW j \in DOMAIN s, j < i PROVE s[j].kind = "eof"
    BY <1>1, <2>2, <2>4
  <2> QED BY <1>1, <2>2, <2>3, <2>4
<1>4. ASSUME NEW i \in DOMAIN s, s[i].kind \notin {"connected", "eof"},
             "connected" \notin seen \cup {Head(q).kind}
      PROVE  \E j \in DOMAIN s : j < i /\ s[j].kind = "connected"
  <2>1. i + 1 \in DOMAIN q /\ q[i + 1] = s[i]
    BY <1>1
  <2>2. PICK j \in DOMAIN q : j < i + 1 /\ q[j].kind = "connected"
    BY <1>4, <2>1 DEF Led
  <2>3. j # 1 /\ j - 1 \in DOMAIN s /\ s[j - 1] = q[j] /\ j - 1 < i
    BY <1>1, <1>4, <2>2
  <2> QED BY <2>2, <2>3
<1> QED BY <1>2, <1>3, <1>4 DEF Led

-----------------------------------------------------------------------------
(* The inductive invariant. *)

Typed == {"input", "big", "odd"}

(* The user's messages are known, and those no shell reads are known so.    *)
Labels(q, n, odd) ==
    \A i \in DOMAIN q :
       q[i].kind \in Typed => q[i].n <= n /\ (q[i].kind = "odd" <=> q[i].n \in odd)

(* The shell has read, or its terminal holds, all up to r.                  *)
Fed(r, read, in, odd) ==
    /\ \A i \in DOMAIN read : read[i] <= r
    /\ \A i \in DOMAIN in : in[i] <= r /\ in[i] \notin odd
    /\ Rises(in)
    /\ \A i \in DOMAIN read, j \in DOMAIN in : read[i] < in[j]
    /\ \A n \in 1..r : n \in Elements(read) \cup Elements(in) \cup odd

(* The terminal holds the pieces of output after b.                         *)
Waiting(out, b, w) ==
    /\ Len(out) = w - b
    /\ \A i \in DOMAIN out : out[i] = b + i

(* Which handlers and ends of connections are there together. *)
Phases ==
    /\ pc["web"] = "check" => pc["agent"] = "off" /\ ~open["back"] /\ ~open["agent"]
    /\ pc["web"] \in {"check", "accept"} =>
          told.n = 0 /\ to["front"] = <<>> /\ pc["up"] = "off" /\ pc["down"] = "off"
    /\ pc["agent"] \in {"off", "start"} => shell = "off"
    /\ pc["agent"] \in {"wait", "status"} => shell # "off"
    /\ pc["agent"] = "status" => shell = "exited"
    /\ pc["agent"] \in {"start", "wait", "status", "return"} => open["agent"]
    /\ pc["reader"] = "off" <=> shell = "off"
    /\ shell = "off" => ~pty.open /\ got = <<>> /\ wrote = 0
    /\ ~pty.open => pty.in = <<>> /\ pty.out = <<>>
    /\ pty.open => pc["agent"] \in {"wait", "status", "return"} /\ pc["reader"] = "run"

(* What arrives at a closed end is dropped. *)
Control ==
    /\ to = [e \in Ends |-> to[e]]
    /\ \A e \in Ends : ~open[e] => to[e] = <<>>
    /\ Phases

(* A bridge that may still carry what it is sent. *)
UpOpen == open["front"] /\ pc["up"] \in {"off", "run"}

DownOpen == open["back"] /\ pc["down"] \in {"off", "run"}

Feeding == open["agent"] /\ (pc["reader"] = "off" \/ (pc["reader"] = "run" /\ Alive))

(* What the shell may still read is all that was typed since. *)
Upward ==
    \E r, p \in Nat :
       /\ Fed(r, got, pty.in, told.odd)
       /\ Follows(to["agent"], Typed, r, p) /\ p <= told.n
       /\ UpOpen => Follows(to["front"], Typed, p, told.n)

UpInv ==
    /\ \A n \in told.odd : n <= told.n
    /\ Labels(to["front"], told.n, told.odd)
    /\ Labels(to["agent"], told.n, told.odd)
    /\ \A i \in DOMAIN got : got[i] <= told.n /\ got[i] \notin told.odd
    /\ Rises(got)
    /\ \A i \in DOMAIN got : \A n \in 1..got[i] : n \in Elements(got) \cup told.odd
    /\ Feeding => Upward

Output == {"output"}

(* What the browser may still show is all that the shell wrote since. *)
FromAgent(w) ==
    \E b \in Nat :
       /\ Follows(to["back"], Output, w, b) /\ b <= wrote
       /\ pty.open => Waiting(pty.out, b, wrote)

FromWeb(s) ==
    \E w \in Nat :
       /\ Follows(to["browser"], Output, s, w) /\ w <= wrote
       /\ DownOpen => FromAgent(w)

DownInv ==
    \E s \in Nat :
       /\ Follows(shown, Output, 0, s) /\ s <= wrote
       /\ open["browser"] => FromWeb(s)

(* "connected" has been sent and stays first. *)
LedInv ==
    /\ Led(shown, {})
    /\ open["browser"] =>
          /\ Led(to["browser"], KindsOf(shown))
          /\ DownOpen =>
                /\ Led(to["back"], KindsOf(shown) \cup KindsOf(to["browser"]))
                /\ "connected" \in KindsOf(shown) \cup KindsOf(to["browser"])
                                                  \cup KindsOf(to["back"])

FirstInv ==
    /\ "eof" \notin KindsOf(shown)
    /\ shell # "off" => LedInv
    /\ shell = "off" =>
          KindsOf(shown) \cup KindsOf(to["browser"]) \cup KindsOf(to["back"])
             \subseteq {"error", "eof"}
    /\ pc["agent"] \in {"off", "start"} =>
          shown = <<>> /\ to["back"] = <<>> /\ KindsOf(to["browser"]) \subseteq {"eof"}
    /\ shell \notin {"exited", "orphan"} =>
          "closed" \notin KindsOf(shown) \cup KindsOf(to["browser"]) \cup KindsOf(to["back"])

IInv == TypeOK /\ Control /\ UpInv /\ DownInv /\ FirstInv

-----------------------------------------------------------------------------
(* What a step does to the queues. *)

Carries(e) == IF e \in {"front", "agent"} THEN Inputs ELSE Outputs

Fits(e) == open[e] => Len(to[e]) < Cap

Put(e, m) == Fits(e) /\ to'[e] = IF open[e] THEN Append(to[e], m) ELSE to[e]

Took(e) == open[e] /\ to[e] # <<>> /\ to'[e] = Tail(to[e])

Rest(ends) == (\A e \in Ends \ ends : to'[e] = to[e]) /\ to' = [e \in Ends |-> to'[e]]

Closes(ends) ==
    /\ \A e \in Ends : to'[e] = IF e \in ends THEN <<>> ELSE to[e]
    /\ \A e \in Ends : open'[e] <=> open[e] /\ e \notin ends
    /\ Rest(ends)

(* The ends of the connections, and who is across.                          *)
LEMMA EndsDef ==
    /\ Ends = {"browser", "front", "back", "agent"}
    /\ Peer["browser"] = "front" /\ Peer["front"] = "browser"
    /\ Peer["back"] = "agent" /\ Peer["agent"] = "back"
    BY DEF Ends, Peer

(* TypeOK as sequences and their bounds.                                    *)
LEMMA TypeFacts ==
    ASSUME TypeOK
    PROVE  /\ Cap \in Nat \ {0} /\ Traffic \in Nat
           /\ \A e \in Ends : to[e] \in Seq(Carries(e)) /\ Len(to[e]) <= Cap
           /\ \A e \in Ends : to[e] \in Seq(Messages)
           /\ pty.in \in Seq(1..Traffic) /\ Len(pty.in) <= Cap
           /\ pty.out \in Seq(1..Traffic) /\ Len(pty.out) <= Cap
           /\ pty = [open |-> pty.open, in |-> pty.in, out |-> pty.out]
           /\ shown \in Seq(Messages)
<1>1. Cap \in Nat \ {0} /\ Traffic \in Nat
  BY ExecAssumption
<1>2. \A e \in Ends : to[e] \in Seq(Carries(e)) /\ Len(to[e]) <= Cap
  BY <1>1, HoldsDef, EndsDef DEF TypeOK, Carries
<1>3. Inputs \subseteq Messages /\ Outputs \subseteq Messages
  BY <1>1 DEF Inputs, Outputs, Messages, Kinds
<1>4. \A e \in Ends : to[e] \in Seq(Messages)
  BY <1>2, <1>3, SeqMonotonic DEF Carries
<1>5. /\ pty.in \in Seq(1..Traffic) /\ Len(pty.in) <= Cap
      /\ pty.out \in Seq(1..Traffic) /\ Len(pty.out) <= Cap
  BY <1>1, HoldsDef DEF TypeOK
<1>6. pty = [open |-> pty.open, in |-> pty.in, out |-> pty.out]
  BY DEF TypeOK
<1>7. shown \in Seq(Messages)
  BY <1>3, SeqMonotonic DEF TypeOK
<1> QED BY <1>1, <1>2, <1>4, <1>5, <1>6, <1>7

(* A frame goes to the queue of its peer, and to no other.                  *)
LEMMA SentIs ==
    ASSUME Control, NEW e \in Ends, NEW m, NEW queues, queues = [f \in Ends |-> queues[f]]
    PROVE  LET p == Peer[e]
               s == Sent(e, m, queues)
           IN /\ s[p] = IF open[p] THEN Append(queues[p], m) ELSE queues[p]
              /\ \A f \in Ends \ {p} : s[f] = queues[f]
              /\ s = [f \in Ends |-> s[f]]
    BY EndsDef DEF Sent

(* A write puts its message into the queue of its peer.                     *)
LEMMA WriteIs ==
    ASSUME Control, NEW e \in Ends, NEW m, Write(e, m)
    PROVE  open[e] /\ Put(Peer[e], m) /\ Rest({Peer[e]})
<1>1. to = [f \in Ends |-> to[f]]
  BY DEF Control
<1> QED BY <1>1, SentIs DEF Write, Writable, Put, Fits, Rest, Room

(* A receive shortens one queue.                                            *)
LEMMA ReceivedIs ==
    ASSUME Control, NEW e \in Ends
    PROVE  LET s == Received(e)
           IN /\ s[e] = IF Pending(e) THEN Tail(to[e]) ELSE to[e]
              /\ \A f \in Ends \ {e} : s[f] = to[f]
              /\ s = [f \in Ends |-> s[f]]
    BY DEF Received, Control

(* Close empties what it closes.                                            *)
LEMMA CloseIs ==
    ASSUME Control, NEW ends, Close(ends)
    PROVE  Closes(ends)
    BY DEF Closes, Close, Rest

(* The agent's handler writes, or there is nobody to write to.              *)
LEMMA WriteTextIs ==
    ASSUME Control, NEW m, WriteText(m), open["agent"]
    PROVE  Put("back", m) /\ Rest({"back"})
<1>1. CASE Write("agent", m)
  BY <1>1, WriteIs, EndsDef
<1>2. CASE Broken("agent") /\ UNCHANGED to
  BY <1>2, EndsDef DEF Broken, Put, Fits, Rest, Control
<1> QED BY <1>1, <1>2 DEF WriteText

(* What each step that touches a queue does to them.                        *)
LEMMA SendIs ==
    ASSUME Control, NEW kind, Send(kind)
    PROVE  /\ Put("front", [kind |-> kind, n |-> told.n + 1]) /\ Rest({"front"})
           /\ pc["web"] = "bridge" /\ told.n + wrote < Traffic
           /\ told' = [told EXCEPT !.n = @ + 1,
                            !.odd = IF kind = "odd" THEN @ \cup {told.n + 1} ELSE @]
           /\ UNCHANGED <<pc, open, pty, shell, cancelled, wrote, got, shown>>
    BY WriteIs, EndsDef DEF Send, Typing, browserRest

(* The page asks for the end, or leaves.                                    *)
LEMMA SendCloseIs ==
    ASSUME Control, SendClose
    PROVE  /\ \E kind \in {"close", "eof"} : Put("front", Say(kind))
           /\ Rest({"front"})
           /\ pc["web"] = "bridge"
           /\ \/ told' = [told EXCEPT !.asked = TRUE]
              \/ told' = [told EXCEPT !.asked = TRUE, !.closed = TRUE]
           /\ UNCHANGED <<pc, open, pty, shell, cancelled, wrote, got, shown>>
    BY WriteIs, EndsDef DEF SendClose, Typing, browserRest

(* The browser takes a message: a close frame ends it.                      *)
LEMMA ShowIs ==
    ASSUME Control, Show
    PROVE  /\ open["browser"] /\ to["browser"] # <<>>
           /\ \/ /\ Head(to["browser"]).kind = "eof"
                 /\ Closes({"browser"}) /\ UNCHANGED shown
              \/ /\ Head(to["browser"]).kind # "eof"
                 /\ shown' = Append(shown, Head(to["browser"]))
                 /\ Took("browser") /\ Rest({"browser"}) /\ UNCHANGED open
           /\ UNCHANGED <<told, pc, pty, shell, cancelled, wrote, got>>
    BY CloseIs, ReceivedIs, EndsDef DEF Show, Pending, browserRest, Took, Rest

(* A bridge takes a message from one queue and puts it into another.        *)
LEMMA CopyIs ==
    ASSUME Control, NEW g, NEW src \in Ends, NEW dst \in Ends, Copy(g, src, dst),
           src # Peer[dst]
    PROVE  /\ pc[g] = "run" /\ open[dst] /\ Head(to[src]).kind \notin {"eof", "big"}
           /\ Took(src) /\ Put(Peer[dst], Head(to[src])) /\ Rest({src, Peer[dst]})
           /\ UNCHANGED <<pc, open, pty, shell, cancelled, told, wrote, got, shown>>
<1>1. /\ \A f \in Ends \ {src} : Received(src)[f] = to[f]
      /\ Received(src) = [f \in Ends |-> Received(src)[f]]
      /\ Received(src)[src] = Tail(to[src])
  BY ReceivedIs DEF Copy
<1>2. Peer[dst] \in Ends
  BY EndsDef
<1>3. to' = Sent(dst, Head(to[src]), Received(src))
  BY DEF Copy
<1>4. /\ to'[Peer[dst]] = IF open[Peer[dst]]
                          THEN Append(Received(src)[Peer[dst]], Head(to[src]))
                          ELSE Received(src)[Peer[dst]]
      /\ \A f \in Ends \ {Peer[dst]} : to'[f] = Received(src)[f]
      /\ to' = [f \in Ends |-> to'[f]]
  BY <1>1, <1>3, SentIs
<1> QED BY <1>1, <1>2, <1>4 DEF Copy, Pending, Writable, Room, Fits, Took, Put, Rest, webRest

(* A bridge that ends may take a message with it.                           *)
LEMMA CopyFailsIs ==
    ASSUME Control, NEW g, NEW src \in Ends, NEW dst \in Ends, CopyFails(g, src, dst)
    PROVE  /\ pc[g] = "run" /\ pc' = [pc EXCEPT ![g] = "end"]
           /\ Took(src) \/ to'[src] = to[src]
           /\ Rest({src})
           /\ UNCHANGED <<open, pty, shell, cancelled, told, wrote, got, shown>>
    BY ReceivedIs DEF CopyFails, Pending, Go, Took, Rest, webRest

(* A close frame is written, or there is nobody to write to.                *)
LEMMA WriteCloseIs ==
    ASSUME Control, NEW step, NEW e \in Ends, NEW next, WriteClose(step, e, next)
    PROVE  /\ Put(Peer[e], Say("eof")) \/ to'[Peer[e]] = to[Peer[e]]
           /\ Rest({Peer[e]})
           /\ pc["web"] = step /\ pc' = [pc EXCEPT !["web"] = next]
           /\ UNCHANGED <<open, pty, shell, cancelled, told, wrote, got, shown>>
<1>1. CASE Write(e, Say("eof"))
  BY <1>1, WriteIs DEF WriteClose, Go, webRest
<1>2. CASE Broken(e) /\ UNCHANGED to
  BY <1>2 DEF WriteClose, Go, Rest, webRest, Control
<1> QED BY <1>1, <1>2 DEF WriteClose

(* The reader takes an input for the terminal or answers an odd message.    *)
LEMMA ReaderPassesIs ==
    ASSUME Control, ReaderPasses
    PROVE  /\ pc["reader"] = "run" /\ Took("agent")
           /\ \/ /\ Head(to["agent"]).kind = "input" /\ (Alive => Len(pty.in) < Cap)
                 /\ pty' = IF Alive THEN [pty EXCEPT !.in = Append(@, Head(to["agent"]).n)]
                           ELSE pty
                 /\ Rest({"agent"})
              \/ /\ Head(to["agent"]).kind = "odd"
                 /\ Put("back", Say("error")) /\ Rest({"agent", "back"})
                 /\ UNCHANGED pty
           /\ UNCHANGED <<pc, open, shell, cancelled, told, wrote, got, shown>>
<1> DEFINE m == Head(to["agent"])
<1>1. /\ \A f \in Ends \ {"agent"} : Received("agent")[f] = to[f]
      /\ Received("agent") = [f \in Ends |-> Received("agent")[f]]
      /\ Received("agent")["agent"] = Tail(to["agent"])
  BY ReceivedIs, EndsDef DEF ReaderPasses
<1>2. /\ pc["reader"] = "run" /\ open["agent"] /\ to["agent"] # <<>>
      /\ UNCHANGED <<pc, open, shell, cancelled, told, wrote, got, shown>>
  BY DEF ReaderPasses, Pending
<1>3. CASE /\ m.kind = "input" /\ (Alive => Room(pty.in))
           /\ pty' = IF Alive THEN [pty EXCEPT !.in = Append(@, m.n)] ELSE pty
           /\ to' = Received("agent")
  <2>1. Took("agent") /\ Rest({"agent"})
    BY <1>1, <1>2, <1>3, EndsDef DEF Took, Rest
  <2> QED BY <1>2, <1>3, <2>1 DEF Room
<1>4. CASE /\ m.kind = "odd"
           /\ Writable("agent") \/ Broken("agent")
           /\ to' = Sent("agent", Say("error"), Received("agent"))
           /\ UNCHANGED pty
  <2>1. /\ to'["back"] = IF open["back"] THEN Append(to["back"], Say("error")) ELSE to["back"]
        /\ \A f \in Ends \ {"back"} : to'[f] = Received("agent")[f]
        /\ to' = [f \in Ends |-> to'[f]]
    BY <1>1, <1>4, SentIs, EndsDef
  <2>2. Fits("back")
    BY <1>2, <1>4, EndsDef DEF Fits, Writable, Broken, Room
  <2>3. Took("agent") /\ Put("back", Say("error")) /\ Rest({"agent", "back"})
    BY <1>1, <1>2, <2>1, <2>2, EndsDef DEF Took, Put, Rest
  <2> QED BY <1>2, <1>4, <2>3
<1> QED BY <1>3, <1>4 DEF ReaderPasses

(* A reader that ends closes the terminal.                                  *)
LEMMA ReaderEndsIs ==
    ASSUME Control, ReaderEnds
    PROVE  /\ pc["reader"] = "run" /\ pc' = [pc EXCEPT !["reader"] = "end"]
           /\ Took("agent") \/ to'["agent"] = to["agent"]
           /\ Rest({"agent"})
           /\ pty' = NoTerminal /\ cancelled' = TRUE
           /\ UNCHANGED <<open, shell, told, wrote, got, shown>>
    BY ReceivedIs, EndsDef DEF ReaderEnds, HangsUp, Pending, Go, Took, Rest

(* The stream sends the piece that has waited longest.                      *)
LEMMA StreamCopiesIs ==
    ASSUME Control, StreamCopies
    PROVE  /\ pty.open /\ pty.out # <<>> /\ pty' = [pty EXCEPT !.out = Tail(@)]
           /\ Put("back", [kind |-> "output", n |-> Head(pty.out)]) /\ Rest({"back"})
           /\ UNCHANGED <<pc, open, shell, cancelled, told, wrote, got, shown>>
<1>1. open["agent"]
  BY DEF StreamCopies, Control, Phases
<1> QED BY <1>1, WriteTextIs DEF StreamCopies

-----------------------------------------------------------------------------
(* Types, and who is there with whom. *)

(* What fits stays within the bound, and so does what is left.              *)
LEMMA HoldsStep ==
    ASSUME NEW M, NEW q, q \in Holds(M)
    PROVE  /\ \A m \in M : Len(q) < Cap => Append(q, m) \in Holds(M)
           /\ q # <<>> => Tail(q) \in Holds(M)
           /\ <<>> \in Holds(M)
<1>1. Cap \in Nat
  BY ExecAssumption
<1>2. q \in Seq(M) /\ Len(q) <= Cap
  BY <1>1, HoldsDef
<1>3. ASSUME NEW m \in M, Len(q) < Cap PROVE Append(q, m) \in Holds(M)
  <2>1. Append(q, m) \in Seq(M) /\ Len(Append(q, m)) = Len(q) + 1 /\ Len(q) \in Nat
    BY <1>2, Appended
  <2>2. Append(q, m) \in Holds(M)
           <=> Append(q, m) \in Seq(M) /\ Len(Append(q, m)) <= Cap
    BY <1>1, HoldsDef, Zenon
  <2> QED BY <1>1, <1>3, <2>1, <2>2
<1>4. ASSUME q # <<>> PROVE Tail(q) \in Holds(M)
  <2>1. Tail(q) \in Seq(M) /\ Len(Tail(q)) = Len(q) - 1 /\ Len(q) \in Nat
    BY <1>2, <1>4, Shortened
  <2>2. Tail(q) \in Holds(M) <=> Tail(q) \in Seq(M) /\ Len(Tail(q)) <= Cap
    BY <1>1, HoldsDef, Zenon
  <2> QED BY <1>1, <1>2, <2>1, <2>2
<1>5. <<>> \in Holds(M)
  <2>1. <<>> \in Holds(M) <=> <<>> \in Seq(M) /\ Len(<<>>) <= Cap
    BY <1>1, HoldsDef, Zenon
  <2> QED BY <1>1, <2>1, EmptySeq
<1> QED BY <1>3, <1>4, <1>5

(* Each thing that a step does to a queue keeps its type.                   *)
LEMMA QueueStep ==
    ASSUME TypeOK, NEW e \in Ends
    PROVE  /\ to[e] \in Holds(Carries(e))
           /\ \A m \in Carries(e) : Put(e, m) => to'[e] \in Holds(Carries(e))
           /\ Took(e) => to'[e] \in Holds(Carries(e)) /\ Head(to[e]) \in Carries(e)
           /\ to'[e] = <<>> => to'[e] \in Holds(Carries(e))
<1>1. to[e] \in Holds(Carries(e))
  BY EndsDef DEF TypeOK, Carries
<1>2. to[e] # <<>> => Head(to[e]) \in Carries(e)
  BY TypeFacts, Shortened
<1> QED BY <1>1, <1>2, HoldsStep DEF Put, Fits, Took

(* The queues hold what belongs to them, and those of closed ends nothing.  *)
QueuesOK ==
    /\ to = [e \in Ends |-> to[e]]
    /\ \A e \in Ends : to[e] \in Holds(Carries(e)) /\ (~open[e] => to[e] = <<>>)

Moves(e) == (\E m \in Carries(e) : Put(e, m)) \/ Took(e) \/ to'[e] = to[e]

(* What is shown came from the agent.                                       *)
LEMMA ShownStep ==
    ASSUME TypeOK, to["browser"] # <<>>, shown' = Append(shown, Head(to["browser"]))
    PROVE  shown' \in Seq(Outputs)
    BY TypeFacts, EndsDef, Shortened, Appended DEF TypeOK, Carries

(* The messages without a number go in the right direction.                 *)
LEMMA SayTypes ==
    /\ \A kind \in {"close", "eof"} : Say(kind) \in Inputs
    /\ \A kind \in {"connected", "error", "closed", "eof"} : Say(kind) \in Outputs
    BY DEF Say, Inputs, Outputs

(* Every step keeps the queues.                                             *)
LEMMA QueuesKept ==
    ASSUME TypeOK, Control, Next
    PROVE  QueuesOK'
<1>0. \A e \in Ends : /\ to[e] \in Holds(Carries(e))
                      /\ Carries(e) = Inputs \/ Carries(e) = Outputs
  BY QueueStep DEF Carries
<1>c. /\ Carries("front") = Inputs /\ Carries("agent") = Inputs
      /\ Carries("back") = Outputs /\ Carries("browser") = Outputs
  BY DEF Carries
<1>q. to = [e \in Ends |-> to[e]]
  BY DEF Control
<1>o. \A e \in Ends : ~open[e] => to[e] = <<>>
  BY DEF Control
<1>r. ASSUME NEW ends, Rest(ends), \A e \in Ends \cap ends : Moves(e),
             \A e \in Ends : open[e] => open'[e]
      PROVE  QueuesOK'
  <2>1. ASSUME NEW e \in Ends
        PROVE  to'[e] \in Holds(Carries(e)) /\ (~open'[e] => to'[e] = <<>>)
    <3>1. Moves(e)
      BY <1>r DEF Rest, Moves
    <3>2. CASE \E m \in Carries(e) : Put(e, m)
      BY <1>o, <1>r, <3>2, QueueStep DEF Put
    <3>3. CASE Took(e)
      BY <1>r, <3>3, QueueStep DEF Took
    <3>4. CASE to'[e] = to[e]
      BY <1>0, <1>o, <1>r, <3>4
    <3> QED BY <3>1, <3>2, <3>3, <3>4 DEF Moves
  <2> QED BY <1>r, <2>1 DEF Rest, QueuesOK
<1>s. ASSUME UNCHANGED to, \A e \in Ends : open[e] => open'[e] PROVE QueuesOK'
  BY <1>0, <1>q, <1>o, <1>s DEF QueuesOK
<1>t. ASSUME NEW ends, Closes(ends) PROVE QueuesOK'
  <2>1. \A e \in Ends : to'[e] = <<>> \/ (to'[e] = to[e] /\ (open[e] => open'[e]))
    BY <1>t DEF Closes
  <2>2. \A e \in Ends : to'[e] \in Holds(Carries(e)) /\ (~open'[e] => to'[e] = <<>>)
    BY <1>0, <1>o, <2>1, QueueStep
  <2> QED BY <1>t, <2>2 DEF Closes, Rest, QueuesOK
<1>1. ASSUME NEW kind \in Typed, Send(kind) PROVE QueuesOK'
  <2>1. /\ Put("front", [kind |-> kind, n |-> told.n + 1]) /\ Rest({"front"})
        /\ told.n + wrote < Traffic /\ UNCHANGED open
    BY <1>1, SendIs
  <2>2. [kind |-> kind, n |-> told.n + 1] \in Inputs
    BY <2>1, TypeFacts DEF TypeOK, Inputs, Typed
  <2> QED BY <1>c, <1>r, <2>1, <2>2 DEF Moves
<1>2. ASSUME SendClose PROVE QueuesOK'
  <2>1. (\E m \in Inputs : Put("front", m)) /\ Rest({"front"}) /\ UNCHANGED open
    BY <1>2, SendCloseIs, SayTypes
  <2> QED BY <1>c, <1>r, <2>1 DEF Moves
<1>3. ASSUME Show PROVE QueuesOK'
  BY <1>3, <1>r, <1>t, ShowIs DEF Moves
<1>4. ASSUME \E ends : Close(ends) PROVE QueuesOK'
  BY <1>4, <1>t, CloseIs
<1>5. ASSUME NEW g, NEW src \in Ends, NEW dst \in Ends, Copy(g, src, dst),
             Carries(src) = Carries(Peer[dst]), src # Peer[dst], Peer[dst] \in Ends
      PROVE  QueuesOK'
  <2>1. /\ Took(src) /\ Put(Peer[dst], Head(to[src])) /\ Rest({src, Peer[dst]})
        /\ UNCHANGED open
    BY <1>5, CopyIs
  <2>2. Head(to[src]) \in Carries(src)
    BY <2>1, QueueStep
  <2>3. Moves(src) /\ Moves(Peer[dst])
    BY <1>5, <2>1, <2>2 DEF Moves
  <2> QED BY <1>r, <2>1, <2>3
<1>6. ASSUME NEW g, NEW src \in Ends, NEW dst \in Ends, CopyFails(g, src, dst)
      PROVE  QueuesOK'
  <2>1. Moves(src) /\ Rest({src}) /\ UNCHANGED open
    BY <1>6, CopyFailsIs DEF Moves
  <2> QED BY <1>r, <2>1
<1>7. ASSUME NEW step, NEW e \in Ends, NEW next, WriteClose(step, e, next)
      PROVE  QueuesOK'
  <2>1. Peer[e] \in Ends /\ Say("eof") \in Carries(Peer[e])
    BY SayTypes, EndsDef DEF Carries
  <2>2. Moves(Peer[e]) /\ Rest({Peer[e]}) /\ UNCHANGED open
    BY <1>7, <2>1, WriteCloseIs DEF Moves
  <2> QED BY <1>r, <2>2
<1>8. ASSUME NEW m \in Outputs, WriteText(m), open["agent"], UNCHANGED open
      PROVE  QueuesOK'
  <2>1. Moves("back") /\ Rest({"back"})
    BY <1>8, <1>c, WriteTextIs DEF Moves
  <2> QED BY <1>8, <1>r, <2>1
<1>9. ASSUME ReaderPasses PROVE QueuesOK'
  <2>1. UNCHANGED open /\ Moves("agent")
    BY <1>9, ReaderPassesIs DEF Moves
  <2>2. Rest({"agent"}) \/ (Rest({"agent", "back"}) /\ Moves("back"))
    BY <1>9, <1>c, ReaderPassesIs, SayTypes DEF Moves
  <2> QED BY <1>r, <2>1, <2>2
<1>10. ASSUME ReaderEnds PROVE QueuesOK'
  <2>1. UNCHANGED open /\ Moves("agent") /\ Rest({"agent"})
    BY <1>10, ReaderEndsIs DEF Moves
  <2> QED BY <1>r, <2>1
<1>11. ASSUME StreamCopies PROVE QueuesOK'
  <2>1. [kind |-> "output", n |-> Head(pty.out)] \in Outputs
    BY <1>11, TypeFacts, Shortened DEF StreamCopies, Outputs
  <2>2. UNCHANGED open /\ Moves("back") /\ Rest({"back"})
    BY <1>11, <1>c, <2>1, StreamCopiesIs DEF Moves
  <2> QED BY <1>r, <2>2
<1>12. CASE Browser
  BY <1>12, <1>1, <1>2, <1>3, <1>4 DEF Browser, BrowserGone, Typed
<1>13. CASE Web
  <2>1. CASE DialUnix
    <3>1. DOMAIN open = Ends
      BY DEF TypeOK
    <3> QED BY <1>s, <2>1, <3>1, EndsDef DEF DialUnix
  <2>2. CASE Refuse \/ Accept \/ Disconnect \/ Return
    BY <1>4, <1>s, <2>2 DEF Refuse, Accept, Disconnect, Return
  <2> QED BY <1>13, <1>7, <2>1, <2>2, EndsDef DEF Web
<1>14. CASE Up
  BY <1>14, <1>5, <1>6, <1>c, EndsDef DEF Up
<1>15. CASE Down
  BY <1>15, <1>5, <1>6, <1>c, EndsDef DEF Down
<1>16. CASE Agent
  <2>1. pc["agent"] \in {"start", "wait", "status"} => open["agent"]
    BY DEF Control, Phases
  <2> QED BY <1>16, <1>4, <1>8, <1>s, <2>1, SayTypes
             DEF Agent, StartPTYExec, Wait, WriteClosed, AgentReturn
<1>17. CASE Reader
  BY <1>17, <1>9, <1>10 DEF Reader
<1>18. CASE Stream
  BY <1>18, <1>11, <1>s DEF Stream, StreamEnds
<1>19. CASE ShellReads \/ ShellWrites \/ ShellExits
  BY <1>19, <1>s DEF ShellReads, ShellWrites, ShellExits, shellRest
<1>20. CASE WebStops \/ AgentStops
  BY <1>20, <1>4 DEF WebStops, AgentStops
<1> QED
  BY <1>12, <1>13, <1>14, <1>15, <1>16, <1>17, <1>18, <1>19, <1>20 DEF Next

Steps == {"off", "check", "accept", "bridge", "closeFront", "closeBack",
          "return", "done", "run", "end", "start", "wait", "status"}

(* TypeOK without the queues. *)
OtherTypes ==
    /\ pc \in [Goroutines -> Steps]
    /\ open \in [Ends -> BOOLEAN]
    /\ pty \in [open : BOOLEAN, in : Holds(1..Traffic), out : Holds(1..Traffic)]
    /\ shell \in {"off", "running", "exited", "orphan"}
    /\ cancelled \in BOOLEAN
    /\ told \in [n : 0..Traffic, odd : SUBSET (1..Traffic), asked : BOOLEAN, closed : BOOLEAN]
    /\ wrote \in 0..Traffic
    /\ got \in Seq(1..Traffic) /\ shown \in Seq(Outputs)

(* TypeOK is the type of the queues and of the rest.                        *)
LEMMA TypesSplit ==
    /\ TypeOK => OtherTypes
    /\ OtherTypes' /\ QueuesOK' => TypeOK'
<1>1. TypeOK => OtherTypes
  BY DEF TypeOK, OtherTypes, Steps
<1>2. ASSUME OtherTypes', QueuesOK' PROVE TypeOK'
  <2>1. /\ \A e \in {"front", "agent"} : to'[e] \in Holds(Inputs)
        /\ \A e \in {"browser", "back"} : to'[e] \in Holds(Outputs)
    BY <1>2, EndsDef DEF QueuesOK, Carries
  <2> QED BY <1>2, <2>1 DEF OtherTypes, TypeOK, Steps
<1> QED BY <1>1, <1>2

(* Every other variable keeps its type.                                     *)
LEMMA OtherTypesKept ==
    ASSUME TypeOK, Control, Next
    PROVE  OtherTypes'
<1> USE DEF OtherTypes
<1>1. OtherTypes
  BY TypesSplit
<1>2. NoTerminal \in [open : BOOLEAN, in : Holds(1..Traffic), out : Holds(1..Traffic)]
  <2>1. pty.in \in Holds(1..Traffic)
    BY <1>1
  <2> QED BY <2>1, HoldsStep DEF NoTerminal
<1>3. ASSUME NEW kind, Send(kind) PROVE OtherTypes'
  <2>1. told.n + 1 \in 1..Traffic
    BY <1>1, <1>3, TypeFacts DEF Send
  <2>2. told' \in [n : 0..Traffic, odd : SUBSET (1..Traffic), asked : BOOLEAN, closed : BOOLEAN]
    <3> DEFINE R == [n : 0..Traffic, odd : SUBSET (1..Traffic),
                     asked : BOOLEAN, closed : BOOLEAN]
    <3>1. \A x \in R, k \in 0..Traffic : [x EXCEPT !.n = k] \in R
      OBVIOUS
    <3>2. \A x \in R, k \in SUBSET (1..Traffic) : [x EXCEPT !.odd = k] \in R
      OBVIOUS
    <3> DEFINE t1 == [told EXCEPT !.n = told.n + 1]
               o1 == IF kind = "odd" THEN told.odd \cup {told.n + 1} ELSE told.odd
    <3>0. told \in R /\ told.n + 1 \in 0..Traffic
      BY <1>1, <2>1, TypeFacts
    <3>3. t1 \in R
      BY <3>0, <3>1
    <3>4. o1 \in SUBSET (1..Traffic)
      BY <1>1, <2>1
    <3>5. told' = [t1 EXCEPT !.odd = o1]
      BY <1>1, <1>3 DEF Send
    <3> QED BY <3>2, <3>3, <3>4, <3>5
  <2> QED BY <1>1, <1>3, <2>2 DEF Send, browserRest
<1>4. ASSUME SendClose PROVE OtherTypes'
  <2>1. told' \in [n : 0..Traffic, odd : SUBSET (1..Traffic), asked : BOOLEAN, closed : BOOLEAN]
    BY <1>1, <1>4 DEF SendClose
  <2> QED BY <1>1, <1>4, <2>1 DEF SendClose, browserRest
<1>5. ASSUME NEW ends, Close(ends) PROVE open' \in [Ends -> BOOLEAN]
  BY <1>1, <1>5 DEF Close
<1>6. ASSUME Show PROVE OtherTypes'
  <2>1. shown' \in Seq(Outputs) /\ open' \in [Ends -> BOOLEAN]
    BY <1>1, <1>5, <1>6, ShownStep DEF Show, Pending
  <2> QED BY <1>1, <1>6, <2>1 DEF Show, browserRest
<1>7. ASSUME BrowserGone PROVE OtherTypes'
  BY <1>1, <1>5, <1>7 DEF BrowserGone, browserRest
<1>8. ASSUME DialUnix PROVE OtherTypes'
  BY <1>1, <1>8 DEF DialUnix, webRest, Goroutines, Steps
<1>9. ASSUME Refuse \/ Accept \/ Disconnect \/ Return PROVE OtherTypes'
  <2>1. pc' \in [Goroutines -> Steps]
    BY <1>1, <1>9 DEF Refuse, Accept, Disconnect, Return, Go, Goroutines, Steps
  <2>2. open' \in [Ends -> BOOLEAN]
    BY <1>1, <1>5, <1>9 DEF Refuse, Accept, Disconnect, Return
  <2> QED BY <1>1, <1>9, <2>1, <2>2 DEF Refuse, Accept, Disconnect, Return, webRest
<1>10. ASSUME NEW g, NEW src, NEW dst, Copy(g, src, dst) \/ CopyFails(g, src, dst)
       PROVE  OtherTypes'
  <2>1. pc' \in [Goroutines -> Steps]
    BY <1>1, <1>10 DEF Copy, CopyFails, Go, Steps
  <2> QED BY <1>1, <1>10, <2>1 DEF Copy, CopyFails, webRest
<1>11. ASSUME NEW step, NEW e, NEW next \in Steps, WriteClose(step, e, next)
       PROVE  OtherTypes'
  <2>1. pc' \in [Goroutines -> Steps]
    BY <1>1, <1>11 DEF WriteClose, Go
  <2> QED BY <1>1, <1>11, <2>1 DEF WriteClose, webRest
<1>12. ASSUME Agent PROVE OtherTypes'
  <2>1. pc' \in [Goroutines -> Steps]
    <3>1. CASE StartPTYExec
      BY <1>1, <3>1 DEF StartPTYExec, Go, Steps
    <3>2. CASE Wait \/ WriteClosed \/ AgentReturn
      BY <1>1, <3>2 DEF Wait, WriteClosed, AgentReturn, Go, Steps
    <3> QED BY <1>12, <3>1, <3>2 DEF Agent
  <2>2. open' \in [Ends -> BOOLEAN]
    BY <1>1, <1>5, <1>12 DEF Agent, StartPTYExec, Wait, WriteClosed, AgentReturn
  <2>3. pty' \in [open : BOOLEAN, in : Holds(1..Traffic), out : Holds(1..Traffic)]
    BY <1>1, <1>2, <1>12
       DEF Agent, StartPTYExec, Wait, WriteClosed, AgentReturn, webRest
  <2> QED
    BY <1>1, <1>12, <2>1, <2>2, <2>3
       DEF Agent, StartPTYExec, Wait, WriteClosed, AgentReturn, webRest
<1>13. ASSUME ReaderPasses PROVE OtherTypes'
  <2>1. ASSUME Alive, Head(to["agent"]).kind = "input"
        PROVE  /\ Head(to["agent"]).n \in 1..Traffic
               /\ Len(pty.in) < Cap => Append(pty.in, Head(to["agent"]).n) \in Holds(1..Traffic)
    <3>1. Head(to["agent"]) \in Inputs
      BY <1>13, ReaderPassesIs, QueueStep, EndsDef DEF Carries
    <3>2. Head(to["agent"]).n \in 1..Traffic
      BY <2>1, <3>1 DEF Inputs
    <3> QED BY <1>1, <3>2, HoldsStep
  <2>2. pty' \in [open : BOOLEAN, in : Holds(1..Traffic), out : Holds(1..Traffic)]
    BY <1>1, <1>13, <2>1, ReaderPassesIs
  <2> QED BY <1>1, <1>13, <2>2, ReaderPassesIs
<1>14. ASSUME ReaderEnds PROVE OtherTypes'
  BY <1>1, <1>2, <1>14, ReaderEndsIs DEF Steps
<1>15. ASSUME StreamCopies PROVE OtherTypes'
  <2>1. Tail(pty.out) \in Holds(1..Traffic)
    BY <1>1, <1>15, HoldsStep DEF StreamCopies
  <2> QED BY <1>1, <1>15, <2>1 DEF StreamCopies
<1>16. ASSUME StreamEnds PROVE OtherTypes'
  BY <1>1, <1>16 DEF StreamEnds, Go, Steps, webRest
<1>17. ASSUME ShellReads PROVE OtherTypes'
  <2>1. Tail(pty.in) \in Holds(1..Traffic)
    BY <1>1, <1>17, HoldsStep DEF ShellReads
  <2>2. Append(got, Head(pty.in)) \in Seq(1..Traffic)
    BY <1>1, <1>17, TypeFacts, Shortened, Appended DEF ShellReads
  <2> QED BY <1>1, <1>17, <2>1, <2>2 DEF ShellReads, shellRest
<1>18. ASSUME ShellWrites PROVE OtherTypes'
  <2>1. wrote + 1 \in 1..Traffic
    BY <1>1, <1>18, TypeFacts DEF ShellWrites
  <2>2. Append(pty.out, wrote + 1) \in Holds(1..Traffic)
    <3>1. pty.out \in Holds(1..Traffic) /\ Len(pty.out) < Cap
      BY <1>1, <1>18 DEF ShellWrites, Room
    <3> QED BY <2>1, <3>1, HoldsStep
  <2>3. pty' \in [open : BOOLEAN, in : Holds(1..Traffic), out : Holds(1..Traffic)]
    BY <1>1, <1>18, <2>2 DEF ShellWrites
  <2>4. wrote' \in 0..Traffic
    BY <1>18, <2>1, TypeFacts DEF ShellWrites
  <2> QED BY <1>1, <1>18, <2>3, <2>4 DEF ShellWrites, shellRest
<1>19. ASSUME ShellExits PROVE OtherTypes'
  BY <1>1, <1>2, <1>19 DEF ShellExits, shellRest, NoTerminal
<1>20. ASSUME WebStops PROVE OtherTypes'
  BY <1>1, <1>5, <1>20 DEF WebStops, webRest, Steps
<1>21. ASSUME AgentStops PROVE OtherTypes'
  BY <1>1, <1>2, <1>5, <1>21 DEF AgentStops, Steps
<1> QED
  BY <1>3, <1>4, <1>6, <1>7, <1>8, <1>9, <1>10, <1>11, <1>12, <1>13, <1>14, <1>15,
     <1>16, <1>17, <1>18, <1>19, <1>20, <1>21
     DEF Next, Browser, Web, Up, Down, Reader, Stream, Steps

(* Handlers, goroutines and ends of connections stay together.              *)
LEMMA PhasesKept ==
    ASSUME TypeOK, Control, Next
    PROVE  Phases'
<1>1. OtherTypes /\ Phases
  BY TypesSplit DEF Control
<1> USE <1>1 DEF Phases, OtherTypes
<1>2. ASSUME NEW kind, Send(kind) PROVE Phases'
  <2>1. /\ pc["web"] = "bridge"
        /\ UNCHANGED <<pc, open, pty, shell, wrote, got>>
    BY <1>2, SendIs
  <2> QED BY <2>1
<1>3. ASSUME SendClose PROVE Phases'
  BY <1>3, SendCloseIs, EndsDef DEF Rest, Goroutines
<1>4. ASSUME Show PROVE Phases'
  BY <1>4, ShowIs, EndsDef DEF Rest, Closes, Goroutines
<1>5. ASSUME BrowserGone PROVE Phases'
  BY <1>5, CloseIs, EndsDef DEF BrowserGone, browserRest, Closes, Goroutines
<1>6. ASSUME Refuse PROVE Phases'
  BY <1>6, CloseIs, EndsDef DEF Refuse, Go, webRest, Closes, Goroutines
<1>7. ASSUME DialUnix PROVE Phases'
  BY <1>7, EndsDef DEF DialUnix, webRest, Goroutines
<1>8. ASSUME Accept PROVE Phases'
  BY <1>8, EndsDef DEF Accept, Go, webRest, Goroutines
<1>9. ASSUME Up PROVE Phases'
  BY <1>9, CopyIs, CopyFailsIs, EndsDef DEF Up, Goroutines, Rest
<1>10. ASSUME Down PROVE Phases'
  BY <1>10, CopyIs, CopyFailsIs, EndsDef DEF Down, Goroutines, Rest
<1>11. ASSUME Disconnect PROVE Phases'
  BY <1>11, EndsDef DEF Disconnect, Go, webRest, Goroutines
<1>12. ASSUME NEW e \in Ends, NEW step, NEW next \in {"closeBack", "return"},
             WriteClose(step, e, next), step \in {"closeFront", "closeBack"}
       PROVE  Phases'
  <2>1. pc["web"] = step /\ pc' = [pc EXCEPT !["web"] = next]
    BY <1>12, WriteCloseIs
  <2>2. UNCHANGED <<open, pty, shell, cancelled, told, wrote, got, shown>>
    BY <1>12, WriteCloseIs
  <2> QED BY <1>12, <2>1, <2>2 DEF Goroutines
<1>13. ASSUME Return PROVE Phases'
  BY <1>13, CloseIs, EndsDef DEF Return, Go, webRest, Closes, Goroutines
<1>14. ASSUME StartPTYExec PROVE Phases'
  BY <1>14, WriteTextIs, EndsDef DEF StartPTYExec, Go, Goroutines, Rest, NoTerminal
<1>15. ASSUME Wait PROVE Phases'
  BY <1>15, EndsDef DEF Wait, Go, Goroutines
<1>16. ASSUME WriteClosed PROVE Phases'
  <2>1. /\ pc["agent"] = "status" /\ pc' = [pc EXCEPT !["agent"] = "return"]
        /\ UNCHANGED <<open, pty, shell, told, wrote, got>>
    BY <1>16 DEF WriteClosed, Go, webRest
  <2>2. to'["front"] = to["front"]
    BY <1>16, <2>1, WriteTextIs, EndsDef DEF WriteClosed, Rest
  <2> QED BY <2>1, <2>2 DEF Goroutines
<1>17. ASSUME AgentReturn PROVE Phases'
  BY <1>17, CloseIs, EndsDef DEF AgentReturn, Go, Closes, Goroutines, NoTerminal
<1>18. ASSUME ReaderPasses PROVE Phases'
  <2>1. /\ to'["front"] = to["front"]
        /\ UNCHANGED <<pc, open, shell, told, wrote, got>>
    BY <1>18, ReaderPassesIs, EndsDef DEF Rest
  <2>2. /\ pty'.open = pty.open
        /\ ~pty.open => pty'.in = pty.in /\ pty'.out = pty.out
    BY <1>18, ReaderPassesIs DEF Alive
  <2> QED BY <2>1, <2>2
<1>19. ASSUME ReaderEnds PROVE Phases'
  <2>1. /\ to'["front"] = to["front"] /\ pty' = NoTerminal
        /\ pc["reader"] = "run" /\ pc' = [pc EXCEPT !["reader"] = "end"]
        /\ UNCHANGED <<open, shell, told, wrote, got>>
    BY <1>19, ReaderEndsIs, EndsDef DEF Rest
  <2> QED BY <2>1 DEF Goroutines, NoTerminal
<1>20. ASSUME StreamCopies PROVE Phases'
  <2>1. /\ to'["front"] = to["front"] /\ pty.open /\ pty'.open
        /\ UNCHANGED <<pc, open, shell, told, wrote, got>>
    BY <1>20, StreamCopiesIs, EndsDef DEF Rest
  <2> QED BY <2>1
<1>21. ASSUME StreamEnds PROVE Phases'
  <2>1. /\ pc' = [pc EXCEPT !["stream"] = "end"]
        /\ UNCHANGED <<to, open, pty, shell, told, wrote, got>>
    BY <1>21 DEF StreamEnds, Go, webRest
  <2> QED BY <2>1 DEF Goroutines
<1>22. ASSUME ShellReads \/ ShellWrites PROVE Phases'
  <2>1. /\ shell = "running" /\ pty.open /\ pty'.open
        /\ UNCHANGED <<pc, to, open, shell, told>>
    BY <1>22 DEF ShellReads, ShellWrites, shellRest, Alive
  <2> QED BY <2>1
<1>23. ASSUME ShellExits PROVE Phases'
  BY <1>23, EndsDef DEF ShellExits, shellRest, NoTerminal
<1>24. ASSUME WebStops PROVE Phases'
  <2>1. /\ pc'["web"] = "done" /\ pc'["agent"] = pc["agent"]
        /\ pc'["reader"] = pc["reader"]
    BY <1>24 DEF WebStops, Goroutines
  <2>2. /\ \A e \in Ends : open'[e] <=> open[e] /\ e \notin {"front", "back"}
        /\ UNCHANGED <<pty, shell, wrote, got>>
    BY <1>24, CloseIs DEF WebStops, webRest, Closes
  <2> QED BY <2>1, <2>2, EndsDef
<1>25. ASSUME AgentStops PROVE Phases'
  <2>1. /\ pc'["agent"] = "done" /\ pc["agent"] # "off"
        /\ pc'["web"] = pc["web"] /\ pc'["up"] = pc["up"] /\ pc'["down"] = pc["down"]
        /\ pc'["reader"] = IF pc["reader"] = "off" THEN "off" ELSE "end"
    BY <1>25 DEF AgentStops, Goroutines
  <2>2. /\ to'["front"] = to["front"] /\ ~pty'.open /\ pty'.in = <<>> /\ pty'.out = <<>>
        /\ shell' = "off" <=> shell = "off"
        /\ UNCHANGED <<told, wrote, got>>
    BY <1>25, CloseIs, EndsDef DEF AgentStops, Closes, NoTerminal
  <2> QED BY <2>1, <2>2
<1> QED
  BY <1>2, <1>3, <1>4, <1>5, <1>6, <1>7, <1>8, <1>9, <1>10, <1>11, <1>12, <1>13, <1>14,
     <1>15, <1>16, <1>17, <1>18, <1>19, <1>20, <1>21, <1>22, <1>23, <1>24, <1>25, EndsDef
     DEF Next, Browser, Web, Agent, Reader, Stream

-----------------------------------------------------------------------------
(* From the user to the shell. *)

(* A message with the right label may be appended.                          *)
LEMMA LabelsAppend ==
    ASSUME NEW q \in Seq(Messages), NEW m \in Messages, NEW n, NEW odd, Labels(q, n, odd),
           m.kind \in Typed => m.n <= n /\ (m.kind = "odd" <=> m.n \in odd)
    PROVE  Labels(Append(q, m), n, odd)
<1>1. \A i \in DOMAIN Append(q, m) :
         (i \in DOMAIN q /\ Append(q, m)[i] = q[i]) \/ Append(q, m)[i] = m
  BY Appended
<1> QED BY <1>1 DEF Labels

(* The head has the right label, and so has the rest.                       *)
LEMMA LabelsTail ==
    ASSUME NEW q \in Seq(Messages), NEW n, NEW odd, Labels(q, n, odd), q # <<>>
    PROVE  /\ Labels(Tail(q), n, odd)
           /\ Head(q).kind \in Typed =>
                 Head(q).n <= n /\ (Head(q).kind = "odd" <=> Head(q).n \in odd)
<1>1. \A i \in DOMAIN Tail(q) : i + 1 \in DOMAIN q /\ Tail(q)[i] = q[i + 1]
  BY Shortened
<1>2. 1 \in DOMAIN q /\ Head(q) = q[1]
  BY Shortened
<1> QED BY <1>1, <1>2 DEF Labels

(* One more typed message keeps the labels.                                 *)
LEMMA LabelsMore ==
    ASSUME NEW q \in Seq(Messages), NEW n \in Nat, NEW odd, NEW odd2, Labels(q, n, odd),
           odd2 \in {odd, odd \cup {n + 1}}
    PROVE  Labels(q, n + 1, odd2)
<1>1. \A i \in DOMAIN q : q[i] \in Messages
  BY ElementOfSeq, LenProperties
<1> QED BY <1>1 DEF Labels, Messages

(* One more typed message does not change what the shell has.               *)
LEMMA FedMore ==
    ASSUME NEW r \in Nat, NEW n \in Nat, r <= n, NEW read \in Seq(Nat), NEW in \in Seq(Nat),
           NEW odd, NEW odd2 \in {odd, odd \cup {n + 1}}, Fed(r, read, in, odd)
    PROVE  Fed(r, read, in, odd2)
<1>1. \A i \in DOMAIN in : in[i] \in Nat
  BY ElementOfSeq, LenProperties
<1>2. \A i \in DOMAIN in : in[i] <= r /\ in[i] \notin odd2
  BY <1>1 DEF Fed
<1> QED BY <1>2 DEF Fed

(* The terminal takes the next input.                                       *)
LEMMA FedPut ==
    ASSUME NEW r \in Nat, NEW read \in Seq(Nat), NEW in \in Seq(Nat), NEW odd,
           Fed(r, read, in, odd), r + 1 \notin odd
    PROVE  Fed(r + 1, read, Append(in, r + 1), odd)
<1> DEFINE s == Append(in, r + 1)
<1>1. /\ DOMAIN s = 1..(Len(in) + 1) /\ DOMAIN in = 1..Len(in) /\ Len(in) \in Nat
      /\ \A i \in 1..Len(in) : s[i] = in[i] /\ in[i] \in Nat
      /\ s[Len(in) + 1] = r + 1
  BY Appended
<1>2. \A i \in DOMAIN read : read[i] \in Nat /\ read[i] <= r
  BY ElementOfSeq, LenProperties DEF Fed
<1>3. \A i \in DOMAIN s : s[i] <= r + 1 /\ s[i] \notin odd
  BY <1>1 DEF Fed
<1>4. Rises(s)
  BY <1>1 DEF Fed, Rises
<1>5. \A i \in DOMAIN read, j \in DOMAIN s : read[i] < s[j]
  <2>1. \A j \in DOMAIN s : (j \in DOMAIN in /\ s[j] = in[j]) \/ s[j] = r + 1
    BY <1>1
  <2>2. \A i \in DOMAIN read : read[i] < r + 1
    BY <1>2
  <2>3. \A i \in DOMAIN read, j \in DOMAIN in : read[i] < in[j]
    BY DEF Fed
  <2> HIDE DEF s
  <2> QED BY <2>1, <2>2, <2>3
<1>6. Elements(in) \subseteq Elements(s) /\ r + 1 \in Elements(s)
  <2>1. \A i \in DOMAIN in : i \in DOMAIN s /\ s[i] = in[i]
    BY <1>1
  <2>2. Len(in) + 1 \in DOMAIN s
    BY <1>1
  <2> QED BY <1>1, <2>1, <2>2 DEF Elements
<1>7. ASSUME NEW n \in 1..(r + 1)
      PROVE  n \in Elements(read) \cup Elements(s) \cup odd
  <2>1. n \in 1..r \/ n = r + 1
    OBVIOUS
  <2>2. \A k \in 1..r : k \in Elements(read) \cup Elements(in) \cup odd
    BY DEF Fed
  <2> QED BY <1>6, <2>1, <2>2
<1>8. \A i \in DOMAIN read : read[i] <= r + 1
  BY <1>2
<1>9. Fed(r + 1, read, s, odd)
  <2> HIDE DEF s
  <2> QED BY <1>3, <1>4, <1>5, <1>7, <1>8 DEF Fed
<1> QED BY <1>9

(* The next message is one that no shell reads.                             *)
LEMMA FedSkip ==
    ASSUME NEW r \in Nat, NEW read \in Seq(Nat), NEW in \in Seq(Nat), NEW odd,
           Fed(r, read, in, odd), r + 1 \in odd
    PROVE  Fed(r + 1, read, in, odd)
<1>1. \A i \in DOMAIN in : in[i] \in Nat
  BY ElementOfSeq, LenProperties
<1>2. \A i \in DOMAIN read : read[i] \in Nat
  BY ElementOfSeq, LenProperties
<1> QED BY <1>1, <1>2 DEF Fed

(* What the shell reads next is the least that it has not read.             *)
LEMMA FedRead ==
    ASSUME NEW r \in Nat, NEW read \in Seq(Nat), NEW in \in Seq(Nat), NEW odd,
           Fed(r, read, in, odd), Rises(read), in # <<>>
    PROVE  LET s == Append(read, Head(in))
           IN /\ Fed(r, s, Tail(in), odd) /\ Rises(s)
              /\ Head(in) <= r /\ Head(in) \notin odd \cup Elements(read)
              /\ \A n \in 1..(Head(in) - 1) : n \in Elements(read) \cup odd
              /\ Elements(s) = Elements(read) \cup {Head(in)}
<1> DEFINE h == Head(in)  s == Append(read, h)  t == Tail(in)
<1>1. /\ DOMAIN t = 1..(Len(in) - 1) /\ DOMAIN in = 1..Len(in)
      /\ Len(in) \in Nat /\ Len(in) > 0
      /\ \A i \in 1..(Len(in) - 1) : t[i] = in[i + 1]
      /\ \A i \in 1..Len(in) : in[i] \in Nat
      /\ h = in[1] /\ h \in Nat
  BY Shortened
<1>2. /\ DOMAIN s = 1..(Len(read) + 1) /\ DOMAIN read = 1..Len(read) /\ Len(read) \in Nat
      /\ \A i \in 1..Len(read) : s[i] = read[i] /\ read[i] \in Nat
      /\ s[Len(read) + 1] = h
  BY <1>1, Appended
<1>3. /\ \A i \in DOMAIN read : read[i] <= r /\ read[i] < h
      /\ h <= r /\ h \notin odd
      /\ \A i \in DOMAIN t : t[i] <= r /\ t[i] \notin odd /\ h < t[i]
  <2>1. Rises(in) /\ 1 \in DOMAIN in
    BY <1>1 DEF Fed
  <2>2. \A i \in DOMAIN t : i + 1 \in DOMAIN in /\ 1 < i + 1 /\ t[i] = in[i + 1]
    BY <1>1
  <2>3. \A i \in DOMAIN t : h < t[i]
    BY <1>1, <2>1, <2>2 DEF Rises
  <2> QED BY <1>1, <2>1, <2>2, <2>3 DEF Fed
<1>4. Elements(s) = Elements(read) \cup {h}
  BY <1>2 DEF Elements
<1>5. \A x \in Elements(in) : x = h \/ x \in Elements(t)
  <2>1. ASSUME NEW i \in DOMAIN in PROVE in[i] = h \/ in[i] \in Elements(t)
    <3>1. i = 1 \/ (i - 1 \in DOMAIN t /\ t[i - 1] = in[i])
      BY <1>1
    <3> QED BY <1>1, <3>1 DEF Elements
  <2> QED BY <2>1 DEF Elements
<1>6. \A n \in 1..r : n \in Elements(s) \cup Elements(t) \cup odd
  BY <1>4, <1>5 DEF Fed
<1>7. ASSUME NEW n \in 1..(h - 1) PROVE n \in Elements(read) \cup odd
  <2>1. n \in 1..r /\ n # h
    BY <1>1, <1>3
  <2>2. n \notin Elements(t)
    BY <1>1, <1>3, <1>7 DEF Elements
  <2> QED BY <1>5, <2>1, <2>2 DEF Fed
<1>8. Rises(s)
  BY <1>2, <1>3 DEF Rises
<1>9. Rises(t)
  <2>1. Rises(in)
    BY DEF Fed
  <2>2. \A i \in DOMAIN t : i + 1 \in DOMAIN in /\ t[i] = in[i + 1] /\ i \in Nat
    BY <1>1
  <2>3. ASSUME NEW i \in DOMAIN t, NEW j \in DOMAIN t, i < j PROVE t[i] < t[j]
    <3>1. i + 1 < j + 1
      BY <2>2, <2>3
    <3> QED BY <2>1, <2>2, <3>1 DEF Rises
  <2> QED BY <2>3 DEF Rises
<1>10. \A i \in DOMAIN s, j \in DOMAIN t : s[i] < t[j]
  <2>1. \A j \in DOMAIN t : j + 1 \in DOMAIN in /\ t[j] = in[j + 1]
    BY <1>1
  <2>2. \A i \in DOMAIN read, j \in DOMAIN t : read[i] < t[j]
    BY <2>1 DEF Fed
  <2>3. \A i \in DOMAIN s : (i \in DOMAIN read /\ s[i] = read[i]) \/ s[i] = h
    BY <1>2
  <2>4. \A j \in DOMAIN t : h < t[j]
    BY <1>3
  <2> HIDE DEF s, t, h
  <2> QED BY <2>2, <2>3, <2>4
<1>11. h \notin Elements(read)
  BY <1>1, <1>2, <1>3 DEF Elements
<1>12. \A i \in DOMAIN s : s[i] <= r
  BY <1>2, <1>3
<1>13. Fed(r, s, t, odd)
  BY <1>3, <1>6, <1>9, <1>10, <1>12 DEF Fed
<1> QED BY <1>3, <1>4, <1>7, <1>8, <1>11, <1>13

(* What a step that carries nothing does to a queue. *)
Calm(e, kinds) ==
    \/ to'[e] = to[e]
    \/ \E m \in Messages : m.kind \notin kinds /\ to'[e] = Append(to[e], m)

Fewer(e) == to'[e] = <<>> \/ (to[e] # <<>> /\ to'[e] = Tail(to[e]))

UpCalm ==
    /\ told'.n = told.n /\ told'.odd = told.odd /\ got' = got
    /\ Calm("front", Typed) \/ Fewer("front")
    /\ Calm("agent", Typed) \/ Fewer("agent")
    /\ UpOpen' => UpOpen /\ Calm("front", Typed)
    /\ Feeding' => Feeding /\ Calm("agent", Typed) /\ pty'.in = pty.in

(* A queue to which nothing of these kinds is added keeps its numbers.      *)
LEMMA CalmFollows ==
    ASSUME TypeOK, NEW e \in Ends, NEW kinds, Calm(e, kinds),
           NEW r \in Nat, NEW t \in Nat, Follows(to[e], kinds, r, t)
    PROVE  Follows(to'[e], kinds, r, t)
    BY TypeFacts, FollowsOther DEF Calm

(* Such a step keeps the way up in order.                                   *)
LEMMA UpCalmKeeps ==
    ASSUME TypeOK, UpInv, UpCalm
    PROVE  UpInv'
<1>1. ASSUME NEW e \in {"front", "agent"} PROVE Labels(to'[e], told'.n, told'.odd)
  <2>1. to[e] \in Seq(Messages) /\ Labels(to[e], told.n, told.odd)
    BY TypeFacts, EndsDef DEF UpInv
  <2>2. Labels(<<>>, told.n, told.odd)
    BY DEF Labels
  <2>3. Labels(to'[e], told.n, told.odd)
    BY <2>1, <2>2, LabelsAppend, LabelsTail DEF UpCalm, Calm, Fewer
  <2> QED BY <2>3 DEF UpCalm
<1>2. ASSUME Feeding' PROVE Upward'
  <2>1. PICK r \in Nat, p \in Nat :
           /\ Fed(r, got, pty.in, told.odd)
           /\ Follows(to["agent"], Typed, r, p) /\ p <= told.n
           /\ UpOpen => Follows(to["front"], Typed, p, told.n)
    BY <1>2 DEF UpCalm, UpInv, Upward
  <2>2. Fed(r, got', pty'.in, told'.odd)
    BY <1>2, <2>1 DEF UpCalm
  <2>3. Follows(to'["agent"], Typed, r, p) /\ p <= told'.n
    BY <1>2, <2>1, CalmFollows, EndsDef DEF UpCalm
  <2>4. told.n \in Nat
    BY DEF TypeOK
  <2>5. UpOpen' => Follows(to'["front"], Typed, p, told'.n)
    BY <1>2, <2>1, <2>4, CalmFollows, EndsDef DEF UpCalm
  <2> QED BY <2>2, <2>3, <2>5 DEF Upward
<1> QED BY <1>1, <1>2 DEF UpInv, UpCalm

(* Typing appends the next number.                                          *)
LEMMA UpSend ==
    ASSUME TypeOK, Control, UpInv, NEW kind \in Typed, Send(kind)
    PROVE  UpInv'
<1> DEFINE m == [kind |-> kind, n |-> told.n + 1]
<1>1. /\ Put("front", m) /\ Rest({"front"})
      /\ told' = [told EXCEPT !.n = @ + 1,
                              !.odd = IF kind = "odd" THEN @ \cup {told.n + 1} ELSE @]
      /\ UNCHANGED <<pc, open, pty, shell, cancelled, wrote, got, shown>>
  BY SendIs
<1>2. /\ told.n \in Nat /\ told.odd \subseteq Nat
      /\ told \in [n : 0..Traffic, odd : SUBSET (1..Traffic), asked : BOOLEAN, closed : BOOLEAN]
  BY DEF TypeOK
<1>3. /\ told'.n = told.n + 1
      /\ told'.odd = IF kind = "odd" THEN told.odd \cup {told.n + 1} ELSE told.odd
  BY <1>1, <1>2
<1>4. told'.odd \in {told.odd, told.odd \cup {told.n + 1}}
  BY <1>3
<1>5. m \in Messages /\ m.kind = kind /\ m.n = told.n + 1
  BY <1>2 DEF Messages, Kinds, Typed
<1>6. /\ to["front"] \in Seq(Messages) /\ to["agent"] \in Seq(Messages)
      /\ to'["agent"] = to["agent"]
  BY <1>1, TypeFacts, EndsDef DEF Rest
<1>7. Labels(to["front"], told'.n, told'.odd) /\ Labels(to'["agent"], told'.n, told'.odd)
  BY <1>2, <1>3, <1>4, <1>6, LabelsMore DEF UpInv
<1>8. \A n \in told.odd : n <= told.n
  BY DEF UpInv
<1>9. m.kind = "odd" <=> m.n \in told'.odd
  BY <1>2, <1>3, <1>5, <1>8
<1>10. Labels(to'["front"], told'.n, told'.odd)
  <2>1. m.n <= told'.n
    BY <1>2, <1>3, <1>5
  <2> QED BY <1>1, <1>5, <1>6, <1>7, <1>9, <2>1, LabelsAppend DEF Put
<1>11. \A n \in told'.odd : n <= told'.n
  BY <1>2, <1>3, <1>8
<1>12. \A i \in DOMAIN got : got[i] \in Nat
  <2>1. got \in Seq(Nat)
    BY TypeFacts, SeqMonotonic DEF TypeOK
  <2> QED BY <2>1, ElementOfSeq, LenProperties
<1>13. /\ \A i \in DOMAIN got' : got'[i] <= told'.n /\ got'[i] \notin told'.odd
       /\ Rises(got')
       /\ \A i \in DOMAIN got' : \A n \in 1..got'[i] : n \in Elements(got') \cup told'.odd
  BY <1>1, <1>2, <1>3, <1>4, <1>12 DEF UpInv
<1>14. ASSUME Feeding' PROVE Upward'
  <2>1. Feeding
    BY <1>1, <1>14 DEF Feeding, Alive
  <2>2. PICK r \in Nat, p \in Nat :
           /\ Fed(r, got, pty.in, told.odd)
           /\ Follows(to["agent"], Typed, r, p) /\ p <= told.n
           /\ UpOpen => Follows(to["front"], Typed, p, told.n)
    BY <2>1 DEF UpInv, Upward
  <2>3. got \in Seq(Nat) /\ pty.in \in Seq(Nat)
    BY TypeFacts, SeqMonotonic DEF TypeOK
  <2>4. r <= told.n
    BY <1>2, <2>2 DEF Follows
  <2>5. Fed(r, got', pty'.in, told'.odd)
    BY <1>1, <1>2, <1>4, <2>2, <2>3, <2>4, FedMore
  <2>6. UpOpen' => Follows(to'["front"], Typed, p, told'.n)
    BY <1>1, <1>2, <1>3, <1>5, <1>6, <2>2, FollowsAppend DEF UpOpen, Put
  <2>7. p <= told'.n
    BY <1>2, <1>3, <2>2
  <2> QED BY <1>6, <2>2, <2>5, <2>6, <2>7 DEF Upward
<1> QED BY <1>7, <1>10, <1>11, <1>13, <1>14 DEF UpInv

(* The bridge moves the first message from one queue to the next.           *)
LEMMA UpCopy ==
    ASSUME TypeOK, Control, UpInv, Copy("up", "front", "back")
    PROVE  UpInv'
<1> DEFINE m == Head(to["front"])
<1>1. /\ pc["up"] = "run" /\ m.kind \notin {"eof", "big"}
      /\ Took("front") /\ Put("agent", m) /\ Rest({"front", "agent"})
      /\ UNCHANGED <<pc, open, pty, shell, cancelled, told, wrote, got, shown>>
  BY CopyIs, EndsDef
<1>2. to["front"] \in Seq(Messages) /\ to["agent"] \in Seq(Messages) /\ told.n \in Nat
  BY TypeFacts, EndsDef DEF TypeOK
<1>3. to["front"] # <<>> /\ open["front"] /\ to'["front"] = Tail(to["front"]) /\ m \in Messages
  BY <1>1, <1>2, Shortened DEF Took
<1>4. /\ Labels(to'["front"], told.n, told.odd)
      /\ m.kind \in Typed => m.n <= told.n /\ (m.kind = "odd" <=> m.n \in told.odd)
  BY <1>2, <1>3, LabelsTail DEF UpInv
<1>5. Labels(to'["agent"], told.n, told.odd)
  BY <1>1, <1>2, <1>3, <1>4, LabelsAppend DEF UpInv, Put
<1>6. ASSUME Feeding' PROVE Upward'
  <2>1. Feeding /\ UpOpen
    BY <1>1, <1>3, <1>6 DEF Feeding, Alive, UpOpen
  <2>2. PICK r \in Nat, p \in Nat :
           /\ Fed(r, got, pty.in, told.odd)
           /\ Follows(to["agent"], Typed, r, p) /\ p <= told.n
           /\ Follows(to["front"], Typed, p, told.n)
    BY <2>1 DEF UpInv, Upward
  <2>3. to'["agent"] = Append(to["agent"], m)
    BY <1>1, <2>1 DEF Put, Feeding
  <2>4. CASE m.kind \in Typed
    <3>1. m.n = p + 1 /\ p + 1 <= told.n /\ Follows(to'["front"], Typed, p + 1, told.n)
      BY <1>2, <1>3, <2>2, <2>4, FollowsHead
    <3>2. Follows(to'["agent"], Typed, r, p + 1)
      BY <1>2, <1>3, <2>2, <2>3, <2>4, <3>1, FollowsAppend
    <3>3. p + 1 \in Nat
      BY <2>2
    <3> QED BY <1>1, <2>2, <3>1, <3>2, <3>3 DEF Upward
  <2>5. CASE m.kind \notin Typed
    <3>1. Follows(to'["front"], Typed, p, told.n)
      BY <1>2, <1>3, <2>2, <2>5, FollowsTail
    <3>2. Follows(to'["agent"], Typed, r, p)
      BY <1>2, <1>3, <2>2, <2>3, <2>5, FollowsOther
    <3> QED BY <1>1, <2>2, <3>1, <3>2 DEF Upward
  <2> QED BY <2>4, <2>5
<1> QED BY <1>1, <1>4, <1>5, <1>6 DEF UpInv

(* The reader takes the next message, for the terminal or to refuse it.     *)
LEMMA UpReader ==
    ASSUME TypeOK, Control, UpInv, ReaderPasses
    PROVE  UpInv'
<1> DEFINE m == Head(to["agent"])
<1>1. /\ pc["reader"] = "run" /\ Took("agent") /\ to'["front"] = to["front"]
      /\ m.kind \in {"input", "odd"}
      /\ m.kind = "input" /\ Alive => pty' = [pty EXCEPT !.in = Append(@, m.n)]
      /\ m.kind = "odd" \/ ~Alive => UNCHANGED pty
      /\ UNCHANGED <<pc, open, shell, cancelled, told, wrote, got, shown>>
  BY ReaderPassesIs, EndsDef DEF Rest
<1>2. to["agent"] \in Seq(Messages) /\ told.n \in Nat
  BY TypeFacts, EndsDef DEF TypeOK
<1>3. to["agent"] # <<>> /\ open["agent"] /\ to'["agent"] = Tail(to["agent"]) /\ m \in Messages
  BY <1>1, <1>2, Shortened DEF Took
<1>4. CASE ~Alive
  <2>1. ~Feeding'
    BY <1>1, <1>4 DEF Feeding, Alive
  <2> QED BY <1>1, <1>3, <2>1, UpCalmKeeps DEF UpCalm, Calm, Fewer, UpOpen
<1>5. CASE Alive
  <2>1. /\ Labels(to'["agent"], told.n, told.odd)
        /\ m.kind = "odd" <=> m.n \in told.odd
    BY <1>1, <1>2, <1>3, LabelsTail DEF UpInv, Typed
  <2>2. Feeding
    BY <1>1, <1>3, <1>5 DEF Feeding
  <2>3. PICK r \in Nat, p \in Nat :
           /\ Fed(r, got, pty.in, told.odd)
           /\ Follows(to["agent"], Typed, r, p) /\ p <= told.n
           /\ UpOpen => Follows(to["front"], Typed, p, told.n)
    BY <2>2 DEF UpInv, Upward
  <2>4. m.n = r + 1 /\ Follows(to'["agent"], Typed, r + 1, p)
    BY <1>1, <1>2, <1>3, <2>3, FollowsHead DEF Typed
  <2>5. got \in Seq(Nat) /\ pty.in \in Seq(Nat) /\ r + 1 \in Nat
    BY TypeFacts, SeqMonotonic DEF TypeOK
  <2>6. Fed(r + 1, got, pty'.in, told.odd)
    <3>1. CASE m.kind = "input"
      <4>1. pty'.in = Append(pty.in, r + 1) /\ r + 1 \notin told.odd
        BY <1>1, <1>5, <2>1, <2>4, <3>1, TypeFacts
      <4> QED BY <2>3, <2>5, <4>1, FedPut
    <3>2. CASE m.kind = "odd"
      <4>1. pty'.in = pty.in /\ r + 1 \in told.odd
        BY <1>1, <2>1, <2>4, <3>2
      <4> QED BY <2>3, <2>5, <4>1, FedSkip
    <3> QED BY <1>1, <3>1, <3>2
  <2>7. Upward'
    BY <1>1, <2>3, <2>4, <2>5, <2>6 DEF Upward, UpOpen
  <2> QED BY <1>1, <2>1, <2>7 DEF UpInv
<1> QED BY <1>4, <1>5

(* The shell reads what is due.                                             *)
LEMMA ReadIsDue ==
    ASSUME TypeOK, Control, UpInv, ShellReads
    PROVE  /\ UpInv'
           /\ Head(pty.in) \in 1..told.n
           /\ Head(pty.in) \notin told.odd \cup Elements(got)
           /\ \A n \in 1..(Head(pty.in) - 1) : n \in told.odd \cup Elements(got)
<1> DEFINE h == Head(pty.in)
<1>1. /\ Alive /\ pty.in # <<>> /\ pty' = [pty EXCEPT !.in = Tail(@)]
      /\ got' = Append(got, h)
      /\ UNCHANGED <<shell, wrote, pc, to, open, cancelled, told, shown>>
  BY DEF ShellReads, shellRest
<1>2. /\ got \in Seq(Nat) /\ pty.in \in Seq(Nat) /\ told.n \in Nat
      /\ pty'.in = Tail(pty.in) /\ pty'.open = pty.open /\ h \in 1..Traffic
  <2>1. got \in Seq(Nat) /\ pty.in \in Seq(Nat) /\ told.n \in Nat
    BY TypeFacts, SeqMonotonic DEF TypeOK
  <2>2. h \in 1..Traffic
    BY <1>1, TypeFacts, Shortened
  <2> QED BY <1>1, <2>1, <2>2, TypeFacts
<1>3. Feeding
  BY <1>1 DEF Feeding, Alive, Control, Phases
<1>4. PICK r \in Nat, p \in Nat :
         /\ Fed(r, got, pty.in, told.odd)
         /\ Follows(to["agent"], Typed, r, p) /\ p <= told.n
         /\ UpOpen => Follows(to["front"], Typed, p, told.n)
  BY <1>3 DEF UpInv, Upward
<1>5. /\ Fed(r, got', pty'.in, told.odd) /\ Rises(got')
      /\ h <= r /\ h \notin told.odd \cup Elements(got)
      /\ \A n \in 1..(h - 1) : n \in Elements(got) \cup told.odd
      /\ Elements(got') = Elements(got) \cup {h}
  BY <1>1, <1>2, <1>4, FedRead DEF UpInv
<1>6. r <= told.n /\ h <= told.n
  BY <1>2, <1>4, <1>5 DEF Follows
<1>7. Upward'
  BY <1>1, <1>4, <1>5 DEF Upward, UpOpen
<1>8. \A i \in DOMAIN got' : (i \in DOMAIN got /\ got'[i] = got[i]) \/ got'[i] = h
  BY <1>1, <1>2, Appended
<1>9. \A i \in DOMAIN got' : got'[i] <= told.n /\ got'[i] \notin told.odd
  BY <1>5, <1>6, <1>8 DEF UpInv
<1>10. \A i \in DOMAIN got' : \A n \in 1..got'[i] : n \in Elements(got') \cup told.odd
  <2>1. \A n \in 1..h : n \in Elements(got') \cup told.odd
    BY <1>2, <1>5
  <2> QED BY <1>5, <1>8, <2>1 DEF UpInv
<1>11. UpInv'
  BY <1>1, <1>5, <1>7, <1>9, <1>10 DEF UpInv
<1> QED BY <1>2, <1>5, <1>6, <1>11

(* A connection to the agent begins with nothing on its way.                *)
LEMMA UpDial ==
    ASSUME TypeOK, Control, UpInv, DialUnix
    PROVE  UpInv'
<1>1. /\ UNCHANGED <<to, pty, shell, cancelled, told, wrote, got, shown>>
      /\ pc["web"] = "check"
  BY DEF DialUnix, webRest
<1>2. /\ got = <<>> /\ pty.in = <<>> /\ told.n = 0
      /\ to["front"] = <<>> /\ to["agent"] = <<>>
  BY <1>1, EndsDef DEF Control, Phases
<1>3. Fed(0, <<>>, <<>>, told.odd)
  BY DEF Fed, Rises
<1>4. Upward'
  BY <1>1, <1>2, <1>3, FollowsEmpty DEF Upward
<1> QED BY <1>1, <1>4 DEF UpInv

(* Every step keeps the way up in order.                                    *)
LEMMA UpKept ==
    ASSUME TypeOK, Control, UpInv, Next
    PROVE  UpInv'
<1>a. TypeOK' /\ Control'
  BY TypesSplit, QueuesKept, OtherTypesKept, PhasesKept DEF QueuesOK, Control
<1>b. \A kind \in {"close", "eof", "connected", "error", "closed"} :
         Say(kind) \in Messages /\ Say(kind).kind = kind
  BY DEF Say, Messages, Kinds
<1>c. ASSUME NEW e \in {"front", "agent"}, NEW kind \in {"close", "eof"}, Put(e, Say(kind))
      PROVE  Calm(e, Typed)
  BY <1>b, <1>c DEF Put, Calm, Typed
<1>s. ASSUME UNCHANGED to PROVE Calm("front", Typed) /\ Calm("agent", Typed)
  BY <1>s DEF Calm
<1>t. ASSUME NEW ends, Closes(ends)
      PROVE  /\ Calm("front", Typed) \/ (Fewer("front") /\ ~open'["front"])
             /\ Calm("agent", Typed) \/ (Fewer("agent") /\ ~open'["agent"])
             /\ \A e \in Ends : open'[e] => open[e]
  BY <1>t, EndsDef DEF Closes, Calm, Fewer
<1>1. ASSUME SendClose PROVE UpCalm
  <2>1. /\ told'.n = told.n /\ told'.odd = told.odd
        /\ UNCHANGED <<pc, open, pty, shell, cancelled, wrote, got, shown>>
    BY <1>1, SendCloseIs DEF TypeOK
  <2>2. Calm("front", Typed) /\ Calm("agent", Typed)
    BY <1>1, <1>c, SendCloseIs, EndsDef DEF Rest, Calm
  <2> QED BY <2>1, <2>2 DEF UpCalm, UpOpen, Feeding, Alive
<1>2. ASSUME Show PROVE UpCalm
  <2>1. UNCHANGED <<told, pc, pty, shell, cancelled, wrote, got>>
    BY <1>2, ShowIs
  <2>2. \A e \in {"front", "agent"} : to'[e] = to[e] /\ (open'[e] <=> open[e])
    BY <1>2, ShowIs, EndsDef DEF Rest, Closes
  <2> QED BY <2>1, <2>2 DEF UpCalm, Calm, UpOpen, Feeding, Alive
<1>3. ASSUME NEW ends, Close(ends), UNCHANGED <<pty, shell, told, got>>,
             pc'["up"] = pc["up"], pc'["reader"] = pc["reader"]
      PROVE  UpCalm
  BY <1>3, <1>t, CloseIs, EndsDef DEF UpCalm, UpOpen, Feeding, Alive
<1>4. ASSUME UNCHANGED <<to, open, pty, shell, told, got>>,
             pc'["up"] \in {"off", "run"} => pc["up"] \in {"off", "run"},
             pc'["reader"] = pc["reader"]
      PROVE  UpCalm
  BY <1>4, <1>s DEF UpCalm, UpOpen, Feeding, Alive
<1>5. ASSUME CopyFails("up", "front", "back") PROVE UpCalm
  <2>1. /\ pc' = [pc EXCEPT !["up"] = "end"]
        /\ Took("front") \/ to'["front"] = to["front"]
        /\ to'["agent"] = to["agent"]
        /\ UNCHANGED <<open, pty, shell, cancelled, told, wrote, got, shown>>
    BY <1>5, CopyFailsIs, EndsDef DEF Rest
  <2>2. pc'["up"] = "end" /\ pc'["reader"] = pc["reader"]
    BY <2>1 DEF TypeOK, Goroutines
  <2> QED BY <2>1, <2>2 DEF UpCalm, Calm, Fewer, Took, UpOpen, Feeding, Alive
<1>6. ASSUME Down PROVE UpCalm
  <2>1. /\ to'["front"] = to["front"] /\ to'["agent"] = to["agent"]
        /\ pc'["up"] = pc["up"] /\ pc'["reader"] = pc["reader"]
        /\ UNCHANGED <<open, pty, shell, told, got>>
    <3>1. CASE Copy("down", "back", "front")
      BY <3>1, CopyIs, EndsDef DEF Rest
    <3>2. CASE CopyFails("down", "back", "front")
      BY <3>2, CopyFailsIs, EndsDef DEF Rest, TypeOK, Goroutines
    <3> QED BY <1>6, <3>1, <3>2 DEF Down
  <2> QED BY <2>1 DEF UpCalm, Calm, UpOpen, Feeding, Alive
<1>7. ASSUME NEW step, NEW e \in {"front", "back"}, NEW next, WriteClose(step, e, next)
      PROVE  UpCalm
  <2>1. /\ pc' = [pc EXCEPT !["web"] = next]
        /\ Put(Peer[e], Say("eof")) \/ to'[Peer[e]] = to[Peer[e]]
        /\ Rest({Peer[e]})
        /\ UNCHANGED <<open, pty, shell, cancelled, told, wrote, got, shown>>
    <3>1. e \in Ends
      BY EndsDef
    <3> QED BY <1>7, <3>1, WriteCloseIs
  <2>2. Calm("front", Typed) /\ Calm("agent", Typed)
    BY <1>c, <2>1, EndsDef DEF Rest, Calm
  <2>3. pc'["up"] = pc["up"] /\ pc'["reader"] = pc["reader"]
    BY <2>1 DEF TypeOK, Goroutines
  <2> QED BY <2>1, <2>2, <2>3 DEF UpCalm, UpOpen, Feeding, Alive
<1>8. ASSUME NEW m, WriteText(m), open["agent"], UNCHANGED <<open, told, got>>,
             pty'.in = pty.in, pc'["up"] = pc["up"], Feeding' => Feeding
      PROVE  UpCalm
  <2>1. to'["front"] = to["front"] /\ to'["agent"] = to["agent"]
    BY <1>8, WriteTextIs, EndsDef DEF Rest
  <2> QED BY <1>8, <2>1 DEF UpCalm, Calm, UpOpen
<1>9. ASSUME StartPTYExec PROVE UpCalm
  <2>1. open["agent"] /\ pc["reader"] = "off"
    BY <1>9 DEF StartPTYExec, Control, Phases
  <2>2. pc'["up"] = pc["up"] /\ pty'.in = pty.in
    BY <1>9 DEF StartPTYExec, Go, TypeOK, Goroutines
  <2> QED BY <1>8, <1>9, <2>1, <2>2 DEF StartPTYExec, Feeding
<1>10. ASSUME Wait PROVE UpCalm
  BY <1>4, <1>10 DEF Wait, Go, TypeOK, Goroutines
<1>11. ASSUME WriteClosed PROVE UpCalm
  <2>1. open["agent"]
    BY <1>11 DEF WriteClosed, Control, Phases
  <2>2. pc'["up"] = pc["up"] /\ pc'["reader"] = pc["reader"]
    BY <1>11 DEF WriteClosed, Go, TypeOK, Goroutines
  <2> QED BY <1>8, <1>11, <2>1, <2>2 DEF WriteClosed, webRest, Feeding, Alive
<1>12. ASSUME AgentReturn \/ AgentStops PROVE UpCalm
  <2>1. UNCHANGED <<told, got>> /\ pc'["up"] = pc["up"]
    BY <1>12 DEF AgentReturn, AgentStops, Go, TypeOK, Goroutines
  <2>2. Closes({"agent"})
    BY <1>12, CloseIs DEF AgentReturn, AgentStops
  <2>3. ~open'["agent"] /\ to'["front"] = to["front"] /\ to'["agent"] = <<>>
        /\ (open'["front"] <=> open["front"])
    BY <2>2, EndsDef DEF Closes
  <2> QED BY <2>1, <2>3 DEF UpCalm, Calm, Fewer, UpOpen, Feeding
<1>13. ASSUME ReaderEnds PROVE UpCalm
  <2>1. /\ pc' = [pc EXCEPT !["reader"] = "end"]
        /\ Took("agent") \/ to'["agent"] = to["agent"]
        /\ to'["front"] = to["front"]
        /\ UNCHANGED <<open, shell, told, wrote, got, shown>>
    BY <1>13, ReaderEndsIs, EndsDef DEF Rest
  <2>2. pc'["reader"] = "end" /\ pc'["up"] = pc["up"]
    BY <2>1 DEF TypeOK, Goroutines
  <2> QED BY <2>1, <2>2 DEF UpCalm, Calm, Fewer, Took, UpOpen, Feeding
<1>14. ASSUME StreamCopies PROVE UpCalm
  <2>1. open["agent"]
    BY <1>14 DEF StreamCopies, Control, Phases
  <2>2. pty'.in = pty.in /\ pty'.open = pty.open
    BY <1>14, TypeFacts DEF StreamCopies
  <2> QED BY <1>8, <1>14, <2>1, <2>2 DEF StreamCopies, Feeding, Alive
<1>15. ASSUME StreamEnds PROVE UpCalm
  BY <1>4, <1>15 DEF StreamEnds, Go, webRest, TypeOK, Goroutines
<1>16. ASSUME ShellWrites \/ ShellExits PROVE UpCalm
  <2>1. UNCHANGED <<pc, to, open, told, got>>
    BY <1>16 DEF ShellWrites, ShellExits, shellRest
  <2>2. Feeding' => Feeding /\ pty'.in = pty.in
    BY <1>16, TypeFacts DEF ShellWrites, ShellExits, shellRest, Feeding, Alive, Control, Phases
  <2> QED BY <1>s, <2>1, <2>2 DEF UpCalm, UpOpen
<1>17. ASSUME WebStops PROVE UpCalm
  <2>1. pc'["reader"] = pc["reader"] /\ UNCHANGED <<told, got, pty, shell>>
    BY <1>17 DEF WebStops, webRest, TypeOK, Goroutines
  <2>2. Closes({"front", "back"})
    BY <1>17, CloseIs DEF WebStops
  <2>3. /\ ~open'["front"] /\ to'["front"] = <<>> /\ to'["agent"] = to["agent"]
        /\ open'["agent"] <=> open["agent"]
    BY <2>2, EndsDef DEF Closes
  <2> QED BY <2>1, <2>3 DEF UpCalm, Calm, Fewer, UpOpen, Feeding, Alive
<1>18. ASSUME Refuse \/ Return \/ BrowserGone PROVE UpCalm
  BY <1>3, <1>18 DEF Refuse, Return, BrowserGone, browserRest, webRest, Go, TypeOK, Goroutines
<1>19. ASSUME Accept PROVE UpCalm
  <2>1. pc["up"] = "off"
    BY <1>19 DEF Accept, Control, Phases
  <2> QED BY <1>4, <1>19, <2>1 DEF Accept, webRest, Go, TypeOK, Goroutines
<1>20. ASSUME Disconnect PROVE UpCalm
  BY <1>4, <1>20 DEF Disconnect, webRest, Go, TypeOK, Goroutines
<1>21. CASE Browser
  BY <1>21, <1>1, <1>2, <1>18, UpCalmKeeps, UpSend DEF Browser, Typed
<1>22. CASE Web
  BY <1>22, <1>7, <1>18, <1>19, <1>20, UpCalmKeeps, UpDial DEF Web
<1>23. CASE Up \/ Down
  BY <1>23, <1>5, <1>6, UpCalmKeeps, UpCopy DEF Up
<1>24. CASE Agent \/ Reader \/ Stream
  BY <1>24, <1>9, <1>10, <1>11, <1>12, <1>13, <1>14, <1>15, UpCalmKeeps, UpReader
     DEF Agent, Reader, Stream
<1>25. CASE ShellReads \/ ShellWrites \/ ShellExits \/ WebStops \/ AgentStops
  BY <1>25, <1>12, <1>16, <1>17, UpCalmKeeps, ReadIsDue
<1> QED BY <1>21, <1>22, <1>23, <1>24, <1>25 DEF Next


-----------------------------------------------------------------------------
(* From the shell to the user. *)

(* A piece that the shell writes waits behind the others.                   *)
LEMMA WaitingMore ==
    ASSUME NEW out \in Seq(Nat), NEW b \in Nat, NEW w \in Nat, b <= w, Waiting(out, b, w)
    PROVE  Waiting(Append(out, w + 1), b, w + 1)
<1> DEFINE s == Append(out, w + 1)
<1>1. /\ DOMAIN s = 1..(Len(out) + 1) /\ DOMAIN out = 1..Len(out) /\ Len(out) \in Nat
      /\ Len(s) = Len(out) + 1
      /\ \A i \in 1..Len(out) : s[i] = out[i]
      /\ s[Len(out) + 1] = w + 1
  BY Appended
<1>2. Len(out) = w - b /\ \A i \in DOMAIN out : out[i] = b + i
  BY DEF Waiting
<1>3. \A i \in DOMAIN s : s[i] = b + i
  BY <1>1, <1>2
<1> QED BY <1>1, <1>2, <1>3 DEF Waiting

(* The terminal hands out the piece after b.                                *)
LEMMA WaitingTail ==
    ASSUME NEW out \in Seq(Nat), NEW b \in Nat, NEW w \in Nat, Waiting(out, b, w), out # <<>>
    PROVE  Head(out) = b + 1 /\ b + 1 <= w /\ Waiting(Tail(out), b + 1, w)
<1> DEFINE s == Tail(out)
<1>1. /\ DOMAIN s = 1..(Len(out) - 1) /\ DOMAIN out = 1..Len(out) /\ Len(out) \in Nat
      /\ Len(out) > 0 /\ Len(s) = Len(out) - 1 /\ Head(out) = out[1]
      /\ \A i \in 1..(Len(out) - 1) : s[i] = out[i + 1]
  BY Shortened
<1>2. Len(out) = w - b /\ \A i \in DOMAIN out : out[i] = b + i
  BY DEF Waiting
<1>3. ASSUME NEW i \in DOMAIN s PROVE s[i] = (b + 1) + i
  <2>1. i \in Nat /\ i + 1 \in DOMAIN out /\ s[i] = out[i + 1]
    BY <1>1
  <2>2. out[i + 1] = b + (i + 1)
    BY <1>2, <2>1
  <2> QED BY <2>1, <2>2
<1> QED BY <1>1, <1>2, <1>3 DEF Waiting

(* What a step that carries no output does. *)
DownCalm ==
    /\ wrote' \in Nat /\ wrote <= wrote' /\ shown' = shown
    /\ open'["browser"] => open["browser"] /\ Calm("browser", Output)
    /\ DownOpen' => DownOpen /\ Calm("back", Output)
    /\ pty'.open =>
          \A b \in Nat : b <= wrote /\ (pty.open => Waiting(pty.out, b, wrote))
                            => Waiting(pty'.out, b, wrote')

(* Such a step keeps the way down in order.                                 *)
LEMMA DownCalmKeeps ==
    ASSUME TypeOK, DownInv, DownCalm
    PROVE  DownInv'
<1>0. wrote \in Nat
  BY DEF TypeOK
<1>1. PICK s \in Nat :
         /\ Follows(shown, Output, 0, s) /\ s <= wrote
         /\ open["browser"] => FromWeb(s)
  BY DEF DownInv
<1>2. ASSUME open'["browser"] PROVE FromWeb(s)'
  <2>1. PICK w \in Nat :
           /\ Follows(to["browser"], Output, s, w) /\ w <= wrote
           /\ DownOpen => FromAgent(w)
    BY <1>1, <1>2 DEF DownCalm, FromWeb
  <2>2. Follows(to'["browser"], Output, s, w) /\ w <= wrote'
    BY <1>0, <1>2, <2>1, CalmFollows, EndsDef DEF DownCalm
  <2>3. ASSUME DownOpen' PROVE FromAgent(w)'
    <3>1. PICK b \in Nat :
             /\ Follows(to["back"], Output, w, b) /\ b <= wrote
             /\ pty.open => Waiting(pty.out, b, wrote)
      BY <2>1, <2>3 DEF DownCalm, FromAgent
    <3>2. Follows(to'["back"], Output, w, b) /\ b <= wrote'
      BY <1>0, <2>3, <3>1, CalmFollows, EndsDef DEF DownCalm
    <3>3. pty'.open => Waiting(pty'.out, b, wrote')
      BY <3>1 DEF DownCalm
    <3> QED BY <3>2, <3>3 DEF FromAgent
  <2> QED BY <2>2, <2>3 DEF FromWeb
<1>3. s <= wrote' /\ Follows(shown', Output, 0, s)
  BY <1>0, <1>1 DEF DownCalm
<1> QED BY <1>2, <1>3 DEF DownInv

(* The browser shows the next piece.                                        *)
LEMMA ShowIsDue ==
    ASSUME TypeOK, DownInv, NEW m, m = Head(to["browser"]),
           open["browser"], to["browser"] # <<>>, shown' = Append(shown, m), Took("browser"),
           to'["back"] = to["back"], UNCHANGED <<pc, open, pty, wrote>>
    PROVE  /\ DownInv'
           /\ m.kind = "output" =>
                 \E s \in Nat : Follows(shown, Output, 0, s) /\ m.n = s + 1 /\ s + 1 <= wrote
<1>0. /\ wrote \in Nat /\ to["browser"] \in Seq(Messages) /\ shown \in Seq(Messages)
      /\ to'["browser"] = Tail(to["browser"]) /\ m \in Messages
  BY TypeFacts, EndsDef, Shortened DEF TypeOK, Took
<1>1. PICK s \in Nat :
         /\ Follows(shown, Output, 0, s) /\ s <= wrote
         /\ open["browser"] => FromWeb(s)
  BY DEF DownInv
<1>2. PICK w \in Nat :
         /\ Follows(to["browser"], Output, s, w) /\ w <= wrote
         /\ DownOpen => FromAgent(w)
  BY <1>1 DEF FromWeb
<1>3. DownOpen' => FromAgent(w)'
  BY <1>2 DEF DownOpen, FromAgent
<1>4. CASE m.kind = "output"
  <2>1. m.n = s + 1 /\ s + 1 <= w /\ Follows(to'["browser"], Output, s + 1, w)
    BY <1>0, <1>2, <1>4, FollowsHead DEF Output
  <2>2. Follows(shown', Output, 0, s + 1)
    BY <1>0, <1>1, <1>4, <2>1, FollowsAppend DEF Output
  <2>3. s + 1 <= wrote /\ s + 1 \in Nat
    BY <1>0, <1>1, <1>2, <2>1
  <2>4. FromWeb(s + 1)'
    BY <1>2, <1>3, <2>1 DEF FromWeb
  <2> QED BY <1>1, <2>1, <2>2, <2>3, <2>4 DEF DownInv
<1>5. CASE m.kind # "output"
  <2>1. Follows(to'["browser"], Output, s, w)
    BY <1>0, <1>2, <1>5, FollowsTail DEF Output
  <2>2. Follows(shown', Output, 0, s)
    BY <1>0, <1>1, <1>5, FollowsOther DEF Output
  <2>3. FromWeb(s)'
    BY <1>2, <1>3, <2>1 DEF FromWeb
  <2> QED BY <1>1, <1>5, <2>2, <2>3 DEF DownInv
<1> QED BY <1>4, <1>5

(* The bridge moves the first message from one queue to the next.           *)
LEMMA DownCopy ==
    ASSUME TypeOK, Control, DownInv, Copy("down", "back", "front")
    PROVE  DownInv'
<1> DEFINE m == Head(to["back"])
<1>1. /\ pc["down"] = "run"
      /\ Took("back") /\ Put("browser", m)
      /\ UNCHANGED <<pc, open, pty, shell, cancelled, told, wrote, got, shown>>
  BY CopyIs, EndsDef
<1>2. /\ wrote \in Nat /\ to["browser"] \in Seq(Messages) /\ to["back"] \in Seq(Messages)
      /\ to["back"] # <<>> /\ to'["back"] = Tail(to["back"]) /\ m \in Messages
      /\ open["back"]
  BY <1>1, TypeFacts, EndsDef, Shortened DEF TypeOK, Took
<1>3. PICK s \in Nat :
         /\ Follows(shown, Output, 0, s) /\ s <= wrote
         /\ open["browser"] => FromWeb(s)
  BY DEF DownInv
<1>4. ASSUME open'["browser"] PROVE FromWeb(s)'
  <2>1. /\ open["browser"] /\ DownOpen
        /\ to'["browser"] = Append(to["browser"], m)
    BY <1>1, <1>2, <1>4 DEF DownOpen, Put
  <2>2. PICK w \in Nat :
           /\ Follows(to["browser"], Output, s, w) /\ w <= wrote
           /\ FromAgent(w)
    BY <1>3, <2>1 DEF FromWeb
  <2>3. PICK b \in Nat :
           /\ Follows(to["back"], Output, w, b) /\ b <= wrote
           /\ pty.open => Waiting(pty.out, b, wrote)
    BY <2>2 DEF FromAgent
  <2>4. CASE m.kind = "output"
    <3>1. m.n = w + 1 /\ w + 1 <= b /\ Follows(to'["back"], Output, w + 1, b)
      BY <1>2, <2>3, <2>4, FollowsHead DEF Output
    <3>2. Follows(to'["browser"], Output, s, w + 1)
      BY <1>2, <2>1, <2>2, <2>4, <3>1, FollowsAppend DEF Output
    <3>3. w + 1 \in Nat /\ w + 1 <= wrote
      BY <1>2, <2>3, <3>1
    <3>4. FromAgent(w + 1)'
      BY <1>1, <2>3, <3>1 DEF FromAgent
    <3> QED BY <1>1, <3>2, <3>3, <3>4 DEF FromWeb
  <2>5. CASE m.kind # "output"
    <3>1. Follows(to'["back"], Output, w, b)
      BY <1>2, <2>3, <2>5, FollowsTail DEF Output
    <3>2. Follows(to'["browser"], Output, s, w)
      BY <1>2, <2>1, <2>2, <2>5, FollowsOther DEF Output
    <3>3. FromAgent(w)'
      BY <1>1, <2>3, <3>1 DEF FromAgent
    <3> QED BY <1>1, <2>2, <3>2, <3>3 DEF FromWeb
  <2> QED BY <2>4, <2>5
<1> QED BY <1>1, <1>3, <1>4 DEF DownInv

(* The stream sends the next piece.                                         *)
LEMMA DownStream ==
    ASSUME TypeOK, Control, DownInv, StreamCopies
    PROVE  DownInv'
<1> DEFINE m == [kind |-> "output", n |-> Head(pty.out)]
<1>1. /\ pty.open /\ pty.out # <<>> /\ pty' = [pty EXCEPT !.out = Tail(@)]
      /\ Put("back", m) /\ to'["browser"] = to["browser"]
      /\ UNCHANGED <<pc, open, shell, cancelled, told, wrote, got, shown>>
  BY StreamCopiesIs, EndsDef DEF Rest
<1>2. /\ wrote \in Nat /\ to["back"] \in Seq(Messages) /\ pty.out \in Seq(Nat)
      /\ pty'.out = Tail(pty.out)
  BY <1>1, TypeFacts, EndsDef, SeqMonotonic DEF TypeOK
<1>3. PICK s \in Nat :
         /\ Follows(shown, Output, 0, s) /\ s <= wrote
         /\ open["browser"] => FromWeb(s)
  BY DEF DownInv
<1>4. ASSUME open'["browser"] PROVE FromWeb(s)'
  <2>1. PICK w \in Nat :
           /\ Follows(to["browser"], Output, s, w) /\ w <= wrote
           /\ DownOpen => FromAgent(w)
    BY <1>1, <1>3, <1>4 DEF FromWeb
  <2>2. ASSUME DownOpen' PROVE FromAgent(w)'
    <3>1. DownOpen /\ to'["back"] = Append(to["back"], m)
      BY <1>1, <2>2 DEF DownOpen, Put
    <3>2. PICK b \in Nat :
             /\ Follows(to["back"], Output, w, b) /\ b <= wrote
             /\ Waiting(pty.out, b, wrote)
      BY <1>1, <2>1, <3>1 DEF FromAgent
    <3>3. Head(pty.out) = b + 1 /\ b + 1 <= wrote /\ Waiting(pty'.out, b + 1, wrote)
      BY <1>1, <1>2, <3>2, WaitingTail
    <3>4. m \in Messages /\ m.kind \in Output /\ m.n = b + 1 /\ b + 1 \in Nat
      BY <3>3 DEF Messages, Kinds, Output
    <3>5. Follows(to'["back"], Output, w, b + 1)
      BY <1>2, <3>1, <3>2, <3>4, FollowsAppend
    <3> QED BY <1>1, <3>3, <3>4, <3>5 DEF FromAgent
  <2> QED BY <1>1, <2>1, <2>2 DEF FromWeb
<1> QED BY <1>1, <1>3, <1>4 DEF DownInv

(* A connection to the agent begins with nothing on its way.                *)
LEMMA DownDial ==
    ASSUME TypeOK, Control, DownInv, DialUnix
    PROVE  DownInv'
<1>1. /\ UNCHANGED <<to, pty, shell, cancelled, told, wrote, got, shown>>
      /\ to["back"] = <<>> /\ ~pty.open
      /\ open'["browser"] => open["browser"]
  BY EndsDef DEF DialUnix, webRest, Control, Phases, TypeOK
<1>2. PICK s \in Nat :
         /\ Follows(shown, Output, 0, s) /\ s <= wrote
         /\ open["browser"] => FromWeb(s)
  BY DEF DownInv
<1>3. \A w \in Nat : w <= wrote => FromAgent(w)'
  BY <1>1, FollowsEmpty DEF FromAgent
<1>4. open'["browser"] => FromWeb(s)'
  BY <1>1, <1>2, <1>3 DEF FromWeb
<1> QED BY <1>1, <1>2, <1>4 DEF DownInv

(* Every step keeps the way down in order.                                  *)
LEMMA DownKept ==
    ASSUME TypeOK, Control, DownInv, Next
    PROVE  DownInv'
<1>a. TypeOK' /\ Control'
  BY TypesSplit, QueuesKept, OtherTypesKept, PhasesKept DEF QueuesOK, Control
<1>b. \A kind \in {"eof", "connected", "error", "closed"} :
         Say(kind) \in Messages /\ Say(kind).kind = kind
  BY DEF Say, Messages, Kinds
<1>c. ASSUME NEW e \in {"browser", "back"},
             NEW kind \in {"eof", "connected", "error", "closed"}, Put(e, Say(kind))
      PROVE  Calm(e, Output)
  BY <1>b, <1>c DEF Put, Calm, Output
<1>w. wrote \in Nat /\ wrote' \in Nat
  BY <1>a DEF TypeOK
<1>p. ASSUME UNCHANGED wrote, pty'.open => pty.open /\ pty'.out = pty.out
      PROVE  pty'.open =>
                \A b \in Nat : b <= wrote /\ (pty.open => Waiting(pty.out, b, wrote))
                                  => Waiting(pty'.out, b, wrote')
  BY <1>p
<1>s. ASSUME NEW ends, Closes(ends), UNCHANGED <<pty, wrote, shown>>,
             pc'["down"] = pc["down"]
      PROVE  DownCalm
  <2>1. \A e \in Ends : open'[e] => open[e] /\ to'[e] = to[e]
    BY <1>s DEF Closes
  <2> QED BY <1>s, <1>p, <1>w, <2>1, EndsDef DEF DownCalm, Calm, DownOpen
<1>q. ASSUME UNCHANGED <<open, shown>>, wrote' = wrote,
             Calm("browser", Output), Calm("back", Output),
             pc'["down"] \in {"off", "run"} => pc["down"] \in {"off", "run"},
             pty'.open => pty.open /\ pty'.out = pty.out
      PROVE  DownCalm
  BY <1>p, <1>q, <1>w DEF DownCalm, DownOpen
<1>u. /\ to'["browser"] = to["browser"] => Calm("browser", Output)
      /\ to'["back"] = to["back"] => Calm("back", Output)
  BY DEF Calm
<1>1. ASSUME Send("input") \/ Send("big") \/ Send("odd") \/ SendClose PROVE DownCalm
  <2>1. UNCHANGED <<pc, open, pty, wrote, shown>>
    BY <1>1, SendIs, SendCloseIs
  <2>2. to'["browser"] = to["browser"] /\ to'["back"] = to["back"]
    BY <1>1, SendIs, SendCloseIs, EndsDef DEF Rest
  <2> QED BY <1>q, <1>u, <2>1, <2>2
<1>2. ASSUME Show PROVE DownInv'
  <2>1. CASE Closes({"browser"}) /\ UNCHANGED shown
    BY <1>2, <1>s, <2>1, ShowIs, DownCalmKeeps
  <2>2. CASE /\ shown' = Append(shown, Head(to["browser"])) /\ Took("browser")
             /\ Rest({"browser"}) /\ UNCHANGED open
    BY <1>2, <2>2, ShowIs, ShowIsDue, EndsDef DEF Rest
  <2> QED BY <1>2, <2>1, <2>2, ShowIs
<1>3. ASSUME Refuse \/ Return \/ BrowserGone PROVE DownCalm
  <2>1. UNCHANGED <<pty, wrote, shown>> /\ pc'["down"] = pc["down"]
    BY <1>3 DEF Refuse, Return, BrowserGone, browserRest, webRest, Go, TypeOK, Goroutines
  <2>2. \E ends : Closes(ends)
    BY <1>3, CloseIs DEF Refuse, Return, BrowserGone
  <2> QED BY <1>s, <2>1, <2>2
<1>4. ASSUME UNCHANGED <<to, open, pty, wrote, shown>>,
             pc'["down"] \in {"off", "run"} => pc["down"] \in {"off", "run"}
      PROVE  DownCalm
  BY <1>4, <1>q, <1>u
<1>5. ASSUME Accept PROVE DownCalm
  <2>1. pc["down"] = "off"
    BY <1>5 DEF Accept, Control, Phases
  <2> QED BY <1>4, <1>5, <2>1 DEF Accept, webRest
<1>6. ASSUME Disconnect PROVE DownCalm
  BY <1>4, <1>6 DEF Disconnect, webRest, Go, TypeOK, Goroutines
<1>7. ASSUME NEW step, NEW e \in {"front", "back"}, NEW next, WriteClose(step, e, next)
      PROVE  DownCalm
  <2>1. /\ pc' = [pc EXCEPT !["web"] = next]
        /\ Put(Peer[e], Say("eof")) \/ to'[Peer[e]] = to[Peer[e]]
        /\ Rest({Peer[e]})
        /\ UNCHANGED <<open, pty, shell, cancelled, told, wrote, got, shown>>
    <3>1. e \in Ends
      BY EndsDef
    <3> QED BY <1>7, <3>1, WriteCloseIs
  <2>2. Calm("browser", Output) /\ Calm("back", Output)
    BY <1>c, <1>u, <2>1, EndsDef DEF Rest
  <2>3. pc'["down"] = pc["down"]
    BY <2>1 DEF TypeOK, Goroutines
  <2> QED BY <1>q, <2>1, <2>2, <2>3
<1>8. ASSUME Up PROVE DownCalm
  <2>1. /\ to'["browser"] = to["browser"] /\ to'["back"] = to["back"]
        /\ pc'["down"] = pc["down"]
        /\ UNCHANGED <<open, pty, wrote, shown>>
    <3>1. CASE Copy("up", "front", "back")
      BY <3>1, CopyIs, EndsDef DEF Rest
    <3>2. CASE CopyFails("up", "front", "back")
      BY <3>2, CopyFailsIs, EndsDef DEF Rest, TypeOK, Goroutines
    <3> QED BY <1>8, <3>1, <3>2 DEF Up
  <2> QED BY <1>q, <1>u, <2>1
<1>9. ASSUME CopyFails("down", "back", "front") PROVE DownCalm
  <2>1. /\ pc' = [pc EXCEPT !["down"] = "end"]
        /\ to'["browser"] = to["browser"]
        /\ UNCHANGED <<open, pty, shell, cancelled, told, wrote, got, shown>>
    BY <1>9, CopyFailsIs, EndsDef DEF Rest
  <2>2. pc'["down"] = "end"
    BY <2>1 DEF TypeOK, Goroutines
  <2> QED BY <1>p, <1>u, <1>w, <2>1, <2>2 DEF DownCalm, DownOpen
<1>10. ASSUME NEW kind \in {"connected", "error", "closed"}, WriteText(Say(kind)), open["agent"]
       PROVE  Calm("browser", Output) /\ Calm("back", Output)
  <2>1. Put("back", Say(kind)) /\ to'["browser"] = to["browser"]
    BY <1>10, WriteTextIs, EndsDef DEF Rest
  <2> QED BY <1>c, <1>u, <2>1
<1>11. ASSUME StartPTYExec PROVE DownCalm
  <2>1. open["agent"] /\ wrote = 0 /\ ~pty.open /\ pty.out = <<>>
    BY <1>11 DEF StartPTYExec, Control, Phases
  <2>2. Calm("browser", Output) /\ Calm("back", Output)
    BY <1>10, <1>11, <2>1 DEF StartPTYExec
  <2>3. UNCHANGED <<open, wrote, shown>> /\ pc'["down"] = pc["down"] /\ pty'.out = pty.out
    BY <1>11 DEF StartPTYExec, Go, TypeOK, Goroutines
  <2>4. \A b \in Nat : b <= wrote => Waiting(pty'.out, b, wrote')
    BY <2>1, <2>3 DEF Waiting
  <2> QED BY <1>w, <2>2, <2>3, <2>4 DEF DownCalm, DownOpen
<1>12. ASSUME Wait PROVE DownCalm
  BY <1>4, <1>12 DEF Wait, Go, TypeOK, Goroutines
<1>13. ASSUME WriteClosed PROVE DownCalm
  <2>1. open["agent"]
    BY <1>13 DEF WriteClosed, Control, Phases
  <2>2. pc'["down"] = pc["down"]
    BY <1>13 DEF WriteClosed, Go, TypeOK, Goroutines
  <2> QED BY <1>10, <1>13, <1>q, <2>1, <2>2 DEF WriteClosed, webRest
<1>14. ASSUME AgentReturn \/ AgentStops PROVE DownCalm
  <2>1. UNCHANGED <<wrote, shown>> /\ pc'["down"] = pc["down"] /\ ~pty'.open
    BY <1>14 DEF AgentReturn, AgentStops, Go, TypeOK, Goroutines, NoTerminal
  <2>2. Closes({"agent"})
    BY <1>14, CloseIs DEF AgentReturn, AgentStops
  <2>3. \A e \in {"browser", "back"} : to'[e] = to[e] /\ (open'[e] <=> open[e])
    BY <2>2, EndsDef DEF Closes
  <2> QED BY <1>u, <1>w, <2>1, <2>3 DEF DownCalm, DownOpen
<1>15. ASSUME ReaderPasses PROVE DownCalm
  <2>1. /\ UNCHANGED <<pc, open, wrote, shown>>
        /\ to'["browser"] = to["browser"]
        /\ to'["back"] = to["back"] \/ Put("back", Say("error"))
    BY <1>15, ReaderPassesIs, EndsDef DEF Rest
  <2>2. pty'.open = pty.open /\ pty'.out = pty.out
    BY <1>15, TypeFacts, ReaderPassesIs
  <2> QED BY <1>c, <1>q, <1>u, <2>1, <2>2
<1>16. ASSUME ReaderEnds PROVE DownCalm
  <2>1. /\ pc' = [pc EXCEPT !["reader"] = "end"] /\ ~pty'.open
        /\ to'["browser"] = to["browser"] /\ to'["back"] = to["back"]
        /\ UNCHANGED <<open, wrote, shown>>
    BY <1>16, ReaderEndsIs, EndsDef DEF Rest, NoTerminal
  <2>2. pc'["down"] = pc["down"]
    BY <2>1 DEF TypeOK, Goroutines
  <2> QED BY <1>q, <1>u, <2>1, <2>2
<1>17. ASSUME StreamEnds PROVE DownCalm
  BY <1>4, <1>17 DEF StreamEnds, Go, webRest, TypeOK, Goroutines
<1>18. ASSUME ShellReads \/ ShellExits PROVE DownCalm
  <2>1. UNCHANGED <<pc, to, open, shown, wrote>>
    BY <1>18 DEF ShellReads, ShellExits, shellRest
  <2>2. pty'.open = pty.open /\ pty'.out = pty.out
    BY <1>18, TypeFacts DEF ShellReads, ShellExits
  <2> QED BY <1>q, <1>u, <2>1, <2>2
<1>19. ASSUME ShellWrites PROVE DownCalm
  <2>1. /\ UNCHANGED <<pc, to, open, shown>> /\ wrote' = wrote + 1
        /\ pty.open /\ pty'.out = Append(pty.out, wrote + 1)
    BY <1>19, TypeFacts DEF ShellWrites, shellRest, Alive
  <2>2. pty.out \in Seq(Nat)
    BY TypeFacts, SeqMonotonic
  <2>3. \A b \in Nat : b <= wrote /\ Waiting(pty.out, b, wrote)
                          => Waiting(pty'.out, b, wrote')
    BY <1>w, <2>1, <2>2, WaitingMore
  <2> QED BY <1>u, <1>w, <2>1, <2>3 DEF DownCalm, DownOpen
<1>20. ASSUME WebStops PROVE DownCalm
  <2>1. UNCHANGED <<wrote, shown, pty>> /\ Closes({"front", "back"})
    BY <1>20, CloseIs DEF WebStops, webRest
  <2>2. /\ ~open'["back"] /\ to'["browser"] = to["browser"]
        /\ open'["browser"] <=> open["browser"]
    BY <2>1, EndsDef DEF Closes
  <2> QED BY <1>p, <1>u, <1>w, <2>1, <2>2 DEF DownCalm, DownOpen
<1>21. CASE Browser
  BY <1>21, <1>1, <1>2, <1>3, DownCalmKeeps DEF Browser
<1>22. CASE Web
  BY <1>22, <1>3, <1>5, <1>6, <1>7, DownCalmKeeps, DownDial DEF Web
<1>23. CASE Up \/ Down
  BY <1>23, <1>8, <1>9, DownCalmKeeps, DownCopy DEF Down
<1>24. CASE Agent \/ Reader \/ Stream
  BY <1>24, <1>11, <1>12, <1>13, <1>14, <1>15, <1>16, <1>17, DownCalmKeeps, DownStream
     DEF Agent, Reader, Stream
<1>25. CASE ShellReads \/ ShellWrites \/ ShellExits \/ WebStops \/ AgentStops
  BY <1>25, <1>14, <1>18, <1>19, <1>20, DownCalmKeeps
<1> QED BY <1>21, <1>22, <1>23, <1>24, <1>25 DEF Next

-----------------------------------------------------------------------------
(* What is announced, and when. *)

(* Of what came before, only "connected" matters.                           *)
LEMMA LedSeen ==
    ASSUME NEW q, NEW seen, NEW seen2, Led(q, seen),
           "connected" \in seen <=> "connected" \in seen2
    PROVE  Led(q, seen2)
    BY DEF Led

(* The kinds in an empty queue.                                             *)
LEMMA KindsEmpty ==
    KindsOf(<<>>) = {} /\ \A seen : Led(<<>>, seen)
    BY DEF KindsOf, Led

(* What a step that announces nothing does. *)
FirstCalm ==
    /\ shown' = shown
    /\ \/ to'["browser"] \in {to["browser"], Append(to["browser"], Say("eof"))}
       \/ to'["browser"] = <<>> /\ ~open'["browser"]
    /\ to'["back"] = to["back"] \/ Fewer("back")
    /\ open'["browser"] => open["browser"]
    /\ DownOpen' => DownOpen /\ to'["back"] = to["back"]
    /\ shell' = shell \/ (shell = "running" /\ shell' \in {"exited", "orphan"})
    /\ pc'["agent"] \in {"off", "start"} => pc["agent"] \in {"off", "start"}

(* Such a step keeps what is announced.                                     *)
LEMMA FirstCalmKeeps ==
    ASSUME TypeOK, FirstInv, FirstCalm
    PROVE  FirstInv'
<1> DEFINE m == Say("eof")
<1>1. /\ to["browser"] \in Seq(Messages) /\ to["back"] \in Seq(Messages)
      /\ m \in Messages /\ m.kind = "eof"
  BY TypeFacts, EndsDef DEF Say, Messages, Kinds
<1>2. KindsOf(Append(to["browser"], m)) = KindsOf(to["browser"]) \cup {"eof"}
  BY <1>1, KindsAppend
<1>3. KindsOf(to'["browser"]) \subseteq KindsOf(to["browser"]) \cup {"eof"}
  BY <1>2, KindsEmpty DEF FirstCalm
<1>4. KindsOf(to'["back"]) \subseteq KindsOf(to["back"])
  BY <1>1, KindsEmpty, KindsTail DEF FirstCalm, Fewer
<1>5. ASSUME shell' # "off" PROVE LedInv'
  <2>1. LedInv
    BY <1>5 DEF FirstCalm, FirstInv
  <2>2. ASSUME open'["browser"]
        PROVE  /\ Led(to'["browser"], KindsOf(shown))
               /\ "connected" \in KindsOf(to'["browser"])
                     <=> "connected" \in KindsOf(to["browser"])
    <3>1. Led(to["browser"], KindsOf(shown))
      BY <2>1, <2>2 DEF FirstCalm, LedInv
    <3>2. Led(Append(to["browser"], m), KindsOf(shown))
      BY <1>1, <3>1, LedAppend
    <3>3. CASE to'["browser"] = to["browser"]
      BY <3>1, <3>3
    <3>4. CASE to'["browser"] = Append(to["browser"], m)
      BY <1>2, <3>2, <3>4
    <3>5. to'["browser"] = to["browser"] \/ to'["browser"] = Append(to["browser"], m)
      BY <2>2 DEF FirstCalm
    <3> QED BY <3>3, <3>4, <3>5
  <2>3. ASSUME open'["browser"], DownOpen'
        PROVE  /\ Led(to'["back"], KindsOf(shown) \cup KindsOf(to'["browser"]))
               /\ "connected" \in KindsOf(shown) \cup KindsOf(to'["browser"])
                                                 \cup KindsOf(to'["back"])
    <3>1. /\ Led(to["back"], KindsOf(shown) \cup KindsOf(to["browser"]))
          /\ "connected" \in KindsOf(shown) \cup KindsOf(to["browser"])
                                            \cup KindsOf(to["back"])
          /\ to'["back"] = to["back"]
      BY <2>1, <2>3 DEF FirstCalm, LedInv
    <3>2. "connected" \in KindsOf(shown) \cup KindsOf(to["browser"])
             <=> "connected" \in KindsOf(shown) \cup KindsOf(to'["browser"])
      BY <2>2, <2>3
    <3>3. Led(to["back"], KindsOf(shown) \cup KindsOf(to'["browser"]))
      BY <3>1, <3>2, LedSeen
    <3> QED BY <3>1, <3>2, <3>3
  <2> QED BY <2>1, <2>2, <2>3 DEF FirstCalm, LedInv
<1>6. ASSUME shell' = "off"
      PROVE  KindsOf(shown') \cup KindsOf(to'["browser"]) \cup KindsOf(to'["back"])
                \subseteq {"error", "eof"}
  BY <1>3, <1>4, <1>6 DEF FirstCalm, FirstInv
<1>7. ASSUME pc'["agent"] \in {"off", "start"}
      PROVE  shown' = <<>> /\ to'["back"] = <<>> /\ KindsOf(to'["browser"]) \subseteq {"eof"}
  BY <1>3, <1>7 DEF FirstCalm, FirstInv, Fewer
<1>8. ASSUME shell' \notin {"exited", "orphan"}
      PROVE  "closed" \notin KindsOf(shown') \cup KindsOf(to'["browser"])
                                             \cup KindsOf(to'["back"])
  BY <1>3, <1>4, <1>8 DEF FirstCalm, FirstInv
<1> QED BY <1>5, <1>6, <1>7, <1>8 DEF FirstCalm, FirstInv

(* The agent says more than "connected" only after it.                      *)
LEMMA FirstPut ==
    ASSUME TypeOK, FirstInv, NEW m \in Messages, Put("back", m),
           m.kind \in {"output", "error", "closed"},
           to'["browser"] = to["browser"], UNCHANGED <<open, shell, shown>>,
           pc'["down"] = pc["down"], pc'["agent"] \notin {"off", "start"},
           shell = "off" => m.kind = "error",
           m.kind = "closed" => shell \in {"exited", "orphan"}
    PROVE  FirstInv'
<1>1. to["back"] \in Seq(Messages) /\ to'["back"] \in {to["back"], Append(to["back"], m)}
  BY TypeFacts, EndsDef DEF Put
<1>2. KindsOf(to["back"]) \subseteq KindsOf(to'["back"])
         /\ KindsOf(to'["back"]) \subseteq KindsOf(to["back"]) \cup {m.kind}
  BY <1>1, KindsAppend
<1>3. ASSUME shell # "off" PROVE LedInv'
  <2>1. LedInv
    BY <1>3 DEF FirstInv
  <2>2. ASSUME open["browser"], DownOpen
        PROVE  Led(to'["back"], KindsOf(shown) \cup KindsOf(to["browser"]))
    <3> DEFINE seen == KindsOf(shown) \cup KindsOf(to["browser"])
    <3>1. Led(to["back"], seen) /\ "connected" \in seen \cup KindsOf(to["back"])
      BY <2>1, <2>2 DEF LedInv
    <3>2. Led(Append(to["back"], m), seen)
      BY <1>1, <3>1, LedAppend
    <3> QED BY <1>1, <3>1, <3>2
  <2> QED BY <1>2, <2>1, <2>2 DEF LedInv, DownOpen
<1>4. shell = "off" => KindsOf(shown) \cup KindsOf(to["browser"]) \cup KindsOf(to'["back"])
                          \subseteq {"error", "eof"}
  BY <1>2 DEF FirstInv
<1>5. shell \notin {"exited", "orphan"} =>
         "closed" \notin KindsOf(shown) \cup KindsOf(to["browser"]) \cup KindsOf(to'["back"])
  BY <1>2 DEF FirstInv
<1> QED BY <1>3, <1>4, <1>5 DEF FirstInv

(* A shell that starts is announced before anything else.                   *)
LEMMA FirstStart ==
    ASSUME TypeOK, FirstInv, Put("back", Say("connected")), pc["agent"] = "start",
           to'["browser"] = to["browser"], UNCHANGED <<open, shown>>,
           shell' = "running", pc'["agent"] = "wait"
    PROVE  FirstInv'
<1> DEFINE m == Say("connected")
<1>1. m \in Messages /\ m.kind = "connected"
  BY DEF Say, Messages, Kinds
<1>2. shown = <<>> /\ to["back"] = <<>> /\ KindsOf(to["browser"]) \subseteq {"eof"}
  BY DEF FirstInv
<1>3. <<>> \in Seq(Messages) /\ to'["back"] = IF open["back"] THEN Append(<<>>, m) ELSE <<>>
  BY <1>2 DEF Put
<1>4. KindsOf(Append(<<>>, m)) = {"connected"}
  BY <1>1, <1>3, KindsAppend, KindsEmpty
<1>5. KindsOf(shown) = {} /\ KindsOf(to'["back"]) \subseteq {"connected"}
  BY <1>2, <1>3, <1>4, KindsEmpty
<1>6. Led(to["browser"], {})
  BY <1>2 DEF Led, KindsOf
<1>7. Led(Append(<<>>, m), KindsOf(to["browser"]))
  BY <1>1, <1>2, <1>3, KindsEmpty, LedAppend
<1>8. LedInv'
  BY <1>2, <1>3, <1>4, <1>5, <1>6, <1>7, KindsEmpty DEF LedInv, DownOpen
<1> QED BY <1>2, <1>5, <1>8 DEF FirstInv

(* The bridge moves the first message from one queue to the next.           *)
LEMMA FirstCopy ==
    ASSUME TypeOK, Control, FirstInv, Copy("down", "back", "front")
    PROVE  FirstInv'
<1> DEFINE m == Head(to["back"])
           S == KindsOf(shown)
           B == KindsOf(to["browser"])
           K == KindsOf(to["back"])
<1>1. /\ pc["down"] = "run" /\ m.kind # "eof"
      /\ Took("back") /\ Put("browser", m)
      /\ UNCHANGED <<pc, open, pty, shell, cancelled, told, wrote, got, shown>>
  BY CopyIs, EndsDef
<1>2. /\ to["browser"] \in Seq(Messages) /\ to["back"] \in Seq(Messages)
      /\ to["back"] # <<>> /\ to'["back"] = Tail(to["back"]) /\ m \in Messages
      /\ DownOpen
      /\ to'["browser"] = IF open["browser"] THEN Append(to["browser"], m) ELSE to["browser"]
  BY <1>1, TypeFacts, EndsDef, Shortened DEF DownOpen, Took, Put
<1>3. K = {m.kind} \cup KindsOf(to'["back"])
  BY <1>2, KindsTail
<1>4. KindsOf(to'["browser"]) = IF open["browser"] THEN B \cup {m.kind} ELSE B
  BY <1>2, KindsAppend
<1>5. ASSUME shell # "off" PROVE LedInv'
  <2>1. LedInv
    BY <1>5 DEF FirstInv
  <2>2. ASSUME open["browser"]
        PROVE  /\ Led(to'["browser"], S)
               /\ Led(to'["back"], S \cup KindsOf(to'["browser"]))
               /\ "connected" \in S \cup KindsOf(to'["browser"]) \cup KindsOf(to'["back"])
    <3>1. /\ Led(to["browser"], S) /\ Led(to["back"], S \cup B)
          /\ "connected" \in S \cup B \cup K
      BY <1>2, <2>1, <2>2 DEF LedInv
    <3>2. /\ m.kind = "connected" => "connected" \notin S \cup B
          /\ m.kind \notin {"connected", "eof"} => "connected" \in S \cup B
          /\ Led(to'["back"], (S \cup B) \cup {m.kind})
      BY <1>2, <3>1, LedTail
    <3>3. Led(to'["browser"], S)
      BY <1>2, <2>2, <3>1, <3>2, LedAppend
    <3>4. (S \cup B) \cup {m.kind} = S \cup KindsOf(to'["browser"])
      BY <1>4, <2>2
    <3> QED BY <1>3, <1>4, <2>2, <3>1, <3>2, <3>3, <3>4
  <2> QED BY <1>1, <2>1, <2>2 DEF LedInv
<1>6. S \cup KindsOf(to'["browser"]) \cup KindsOf(to'["back"]) \subseteq S \cup B \cup K
  BY <1>3, <1>4
<1>7. pc["agent"] \notin {"off", "start"}
  BY <1>2 DEF FirstInv
<1> QED BY <1>1, <1>5, <1>6, <1>7 DEF FirstInv

(* The browser shows the next message: what was announced before it.        *)
LEMMA FirstShow ==
    ASSUME TypeOK, FirstInv, NEW m, m = Head(to["browser"]), m.kind # "eof",
           open["browser"], to["browser"] # <<>>, shown' = Append(shown, m), Took("browser"),
           to'["back"] = to["back"], UNCHANGED <<pc, open, shell>>
    PROVE  /\ FirstInv'
           /\ shell # "off" => (m.kind = "connected" <=> shown = <<>>)
           /\ shell = "off" => m.kind = "error"
           /\ m.kind = "closed" => shell \in {"exited", "orphan"}
<1> DEFINE S == KindsOf(shown)
           B == KindsOf(to["browser"])
           K == KindsOf(to["back"])
<1>1. /\ to["browser"] \in Seq(Messages) /\ shown \in Seq(Messages)
      /\ to'["browser"] = Tail(to["browser"]) /\ m \in Messages
  BY TypeFacts, EndsDef, Shortened DEF Took
<1>2. B = {m.kind} \cup KindsOf(to'["browser"])
  BY <1>1, KindsTail
<1>3. KindsOf(shown') = S \cup {m.kind}
  BY <1>1, KindsAppend
<1>4. ASSUME shell # "off"
      PROVE  LedInv' /\ (m.kind = "connected" <=> shown = <<>>)
  <2>1. LedInv
    BY <1>4 DEF FirstInv
  <2>2. Led(shown, {}) /\ Led(to["browser"], S)
    BY <2>1 DEF LedInv
  <2>3. /\ m.kind = "connected" => "connected" \notin S
        /\ m.kind # "connected" => "connected" \in S
        /\ Led(to'["browser"], S \cup {m.kind})
    BY <1>1, <2>2, LedTail
  <2>4. Led(shown', {})
    BY <1>1, <2>2, <2>3, LedAppend
  <2>5. S \cup B = KindsOf(shown') \cup KindsOf(to'["browser"])
    BY <1>2, <1>3
  <2>6. LedInv'
    BY <1>3, <2>1, <2>3, <2>4, <2>5 DEF LedInv, DownOpen
  <2>7. shown # <<>> => "connected" \in S
    <3>1. ASSUME shown # <<>> PROVE "connected" \in S
      <4>1. 1 \in DOMAIN shown /\ \A j \in DOMAIN shown : ~(j < 1)
        BY <1>1, <3>1, Shortened
      <4>2. shown[1].kind # "eof"
        BY <4>1 DEF FirstInv, KindsOf
      <4>3. shown[1].kind = "connected"
        BY <2>2, <4>1, <4>2 DEF Led
      <4> QED BY <4>1, <4>3 DEF KindsOf
    <3> QED BY <3>1
  <2>8. shown = <<>> => S = {}
    BY KindsEmpty
  <2> QED BY <2>3, <2>6, <2>7, <2>8
<1>5. /\ shell = "off" => m.kind = "error"
      /\ m.kind = "closed" => shell \in {"exited", "orphan"}
      /\ pc["agent"] \notin {"off", "start"}
  BY <1>2 DEF FirstInv
<1>6. KindsOf(shown') \cup KindsOf(to'["browser"]) \cup KindsOf(to'["back"]) = S \cup B \cup K
  BY <1>2, <1>3
<1>7. "eof" \notin KindsOf(shown')
  BY <1>3 DEF FirstInv
<1> QED BY <1>4, <1>5, <1>6, <1>7 DEF FirstInv

(* Every step keeps what is announced.                                      *)
LEMMA FirstKept ==
    ASSUME TypeOK, Control, FirstInv, Next
    PROVE  FirstInv'
<1>b. \A kind \in {"eof", "connected", "error", "closed"} :
         Say(kind) \in Messages /\ Say(kind).kind = kind
  BY DEF Say, Messages, Kinds
<1>q. ASSUME UNCHANGED <<open, shown>>,
             to'["browser"] \in {to["browser"], Append(to["browser"], Say("eof"))},
             to'["back"] = to["back"],
             pc'["down"] \in {"off", "run"} => pc["down"] \in {"off", "run"},
             shell' = shell \/ (shell = "running" /\ shell' \in {"exited", "orphan"}),
             pc'["agent"] \in {"off", "start"} => pc["agent"] \in {"off", "start"}
      PROVE  FirstCalm
  BY <1>q DEF FirstCalm, DownOpen
<1>s. ASSUME NEW ends, Closes(ends), UNCHANGED shown, pc'["down"] = pc["down"],
             shell' = shell \/ (shell = "running" /\ shell' \in {"exited", "orphan"}),
             pc'["agent"] \in {"off", "start"} => pc["agent"] \in {"off", "start"}
      PROVE  FirstCalm
  <2>1. \A e \in Ends : \/ to'[e] = to[e] /\ (open'[e] <=> open[e])
                        \/ to'[e] = <<>> /\ ~open'[e]
    BY <1>s DEF Closes
  <2> QED BY <1>s, <2>1, EndsDef DEF FirstCalm, Fewer, DownOpen
<1>1. ASSUME Send("input") \/ Send("big") \/ Send("odd") \/ SendClose PROVE FirstCalm
  <2>1. UNCHANGED <<pc, open, shell, shown>>
    BY <1>1, SendIs, SendCloseIs
  <2>2. to'["browser"] = to["browser"] /\ to'["back"] = to["back"]
    BY <1>1, SendIs, SendCloseIs, EndsDef DEF Rest
  <2> QED BY <1>q, <2>1, <2>2
<1>2. ASSUME Show PROVE FirstInv'
  <2>1. CASE Closes({"browser"}) /\ UNCHANGED shown
    BY <1>2, <1>s, <2>1, ShowIs, FirstCalmKeeps
  <2>2. CASE /\ Head(to["browser"]).kind # "eof"
             /\ shown' = Append(shown, Head(to["browser"])) /\ Took("browser")
             /\ Rest({"browser"}) /\ UNCHANGED open
    <3>1. to'["back"] = to["back"]
      BY <2>2, EndsDef DEF Rest
    <3> QED BY <1>2, <2>2, <3>1, ShowIs, FirstShow
  <2> QED BY <1>2, <2>1, <2>2, ShowIs
<1>3. ASSUME Refuse \/ Return \/ BrowserGone PROVE FirstCalm
  <2>1. UNCHANGED <<shell, shown>> /\ pc'["down"] = pc["down"] /\ pc'["agent"] = pc["agent"]
    BY <1>3 DEF Refuse, Return, BrowserGone, browserRest, webRest, Go, TypeOK, Goroutines
  <2>2. \E ends : Closes(ends)
    BY <1>3, CloseIs DEF Refuse, Return, BrowserGone
  <2> QED BY <1>s, <2>1, <2>2
<1>4. ASSUME DialUnix PROVE FirstInv'
  <2>1. UNCHANGED <<to, shell, shown>> /\ pc["agent"] = "off" /\ shell = "off"
    BY <1>4 DEF DialUnix, webRest, Control, Phases
  <2> QED BY <2>1 DEF FirstInv
<1>5. ASSUME Accept PROVE FirstCalm
  <2>1. pc["down"] = "off" /\ pc'["agent"] = pc["agent"]
    BY <1>5 DEF Accept, Control, Phases, Go, TypeOK, Goroutines
  <2> QED BY <1>5, <1>q, <2>1 DEF Accept, webRest
<1>6. ASSUME Disconnect PROVE FirstCalm
  BY <1>q, <1>6 DEF Disconnect, webRest, Go, TypeOK, Goroutines
<1>7. ASSUME NEW step, NEW e \in {"front", "back"}, NEW next, WriteClose(step, e, next)
      PROVE  FirstCalm
  <2>1. /\ pc' = [pc EXCEPT !["web"] = next]
        /\ Put(Peer[e], Say("eof")) \/ to'[Peer[e]] = to[Peer[e]]
        /\ Rest({Peer[e]})
        /\ UNCHANGED <<open, pty, shell, cancelled, told, wrote, got, shown>>
    <3>1. e \in Ends
      BY EndsDef
    <3> QED BY <1>7, <3>1, WriteCloseIs
  <2>2. /\ to'["browser"] \in {to["browser"], Append(to["browser"], Say("eof"))}
        /\ to'["back"] = to["back"]
    BY <2>1, EndsDef DEF Rest, Put
  <2>3. pc'["down"] = pc["down"] /\ pc'["agent"] = pc["agent"]
    BY <2>1 DEF TypeOK, Goroutines
  <2> QED BY <1>q, <2>1, <2>2, <2>3
<1>8. ASSUME Up PROVE FirstCalm
  <2>1. /\ to'["browser"] = to["browser"] /\ to'["back"] = to["back"]
        /\ pc'["down"] = pc["down"] /\ pc'["agent"] = pc["agent"]
        /\ UNCHANGED <<open, shell, shown>>
    <3>1. CASE Copy("up", "front", "back")
      BY <3>1, CopyIs, EndsDef DEF Rest
    <3>2. CASE CopyFails("up", "front", "back")
      BY <3>2, CopyFailsIs, EndsDef DEF Rest, TypeOK, Goroutines
    <3> QED BY <1>8, <3>1, <3>2 DEF Up
  <2> QED BY <1>q, <2>1
<1>9. ASSUME CopyFails("down", "back", "front") PROVE FirstCalm
  <2>1. /\ pc' = [pc EXCEPT !["down"] = "end"]
        /\ to'["browser"] = to["browser"]
        /\ Took("back") \/ to'["back"] = to["back"]
        /\ UNCHANGED <<open, pty, shell, cancelled, told, wrote, got, shown>>
    BY <1>9, CopyFailsIs, EndsDef DEF Rest
  <2>2. pc'["down"] = "end" /\ pc'["agent"] = pc["agent"]
    BY <2>1 DEF TypeOK, Goroutines
  <2> QED BY <2>1, <2>2 DEF FirstCalm, DownOpen, Took, Fewer
<1>10. ASSUME NEW m, WriteText(m), open["agent"]
       PROVE  Put("back", m) /\ to'["browser"] = to["browser"]
  BY <1>10, WriteTextIs, EndsDef DEF Rest
<1>11. ASSUME StartPTYExec PROVE FirstInv'
  <2>1. open["agent"] /\ pc["agent"] = "start" /\ shell = "off"
        /\ UNCHANGED <<open, shown>>
    BY <1>11 DEF StartPTYExec, Control, Phases
  <2>2. pc'["down"] = pc["down"]
    BY <1>11 DEF StartPTYExec, Go, TypeOK, Goroutines
  <2>3. CASE pc'["agent"] = "wait" /\ WriteText(Say("connected")) /\ shell' = "running"
    BY <1>10, <2>1, <2>3, FirstStart
  <2>4. CASE pc'["agent"] = "return" /\ WriteText(Say("error")) /\ UNCHANGED shell
    <3>1. Put("back", Say("error")) /\ to'["browser"] = to["browser"]
      BY <1>10, <2>1, <2>4
    <3>2. Say("error") \in Messages /\ Say("error").kind = "error"
      BY <1>b
    <3> QED BY <2>1, <2>2, <2>4, <3>1, <3>2, FirstPut
  <2>5. \/ pc'["agent"] = "wait" /\ WriteText(Say("connected")) /\ shell' = "running"
        \/ pc'["agent"] = "return" /\ WriteText(Say("error")) /\ UNCHANGED shell
    BY <1>11 DEF StartPTYExec, Go, TypeOK, Goroutines
  <2> QED BY <2>3, <2>4, <2>5
<1>12. ASSUME Wait PROVE FirstCalm
  BY <1>q, <1>12 DEF Wait, Go, TypeOK, Goroutines
<1>13. ASSUME WriteClosed PROVE FirstInv'
  <2>1. open["agent"] /\ shell = "exited" /\ UNCHANGED <<open, shell, shown>>
    BY <1>13 DEF WriteClosed, Control, Phases, webRest
  <2>2. pc'["down"] = pc["down"] /\ pc'["agent"] = "return"
    BY <1>13 DEF WriteClosed, Go, TypeOK, Goroutines
  <2>3. Put("back", Say("closed")) /\ to'["browser"] = to["browser"]
    BY <1>10, <1>13, <2>1 DEF WriteClosed
  <2>4. Say("closed") \in Messages /\ Say("closed").kind = "closed"
    BY <1>b
  <2> QED BY <2>1, <2>2, <2>3, <2>4, FirstPut
<1>14. ASSUME AgentReturn \/ AgentStops PROVE FirstCalm
  <2>1. /\ shown' = shown /\ pc'["down"] = pc["down"] /\ pc'["agent"] = "done"
        /\ shell' = shell \/ (shell = "running" /\ shell' \in {"exited", "orphan"})
    BY <1>14 DEF AgentReturn, AgentStops, Go, TypeOK, Goroutines
  <2>2. Closes({"agent"})
    BY <1>14, CloseIs DEF AgentReturn, AgentStops
  <2> QED BY <1>s, <2>1, <2>2
<1>15. ASSUME ReaderPasses PROVE FirstInv'
  <2>1. /\ UNCHANGED <<pc, open, shell, shown>> /\ pc["reader"] = "run"
        /\ to'["browser"] = to["browser"]
        /\ to'["back"] = to["back"] \/ Put("back", Say("error"))
    BY <1>15, ReaderPassesIs, EndsDef DEF Rest
  <2>2. pc["agent"] \notin {"off", "start"} /\ shell # "off"
    BY <2>1 DEF Control, Phases
  <2>3. CASE to'["back"] = to["back"]
    BY <1>q, <2>1, <2>3, FirstCalmKeeps
  <2>4. CASE Put("back", Say("error"))
    <3>1. Say("error") \in Messages /\ Say("error").kind = "error"
      BY <1>b
    <3> QED BY <2>1, <2>2, <2>4, <3>1, FirstPut
  <2> QED BY <2>1, <2>3, <2>4
<1>16. ASSUME ReaderEnds PROVE FirstCalm
  <2>1. /\ pc' = [pc EXCEPT !["reader"] = "end"]
        /\ to'["browser"] = to["browser"] /\ to'["back"] = to["back"]
        /\ UNCHANGED <<open, shell, shown>>
    BY <1>16, ReaderEndsIs, EndsDef DEF Rest
  <2>2. pc'["down"] = pc["down"] /\ pc'["agent"] = pc["agent"]
    BY <2>1 DEF TypeOK, Goroutines
  <2> QED BY <1>q, <2>1, <2>2
<1>17. ASSUME StreamCopies PROVE FirstInv'
  <2> DEFINE m == [kind |-> "output", n |-> Head(pty.out)]
  <2>1. /\ pty.open /\ Put("back", m) /\ to'["browser"] = to["browser"]
        /\ UNCHANGED <<pc, open, shell, shown>>
    BY <1>17, StreamCopiesIs, EndsDef DEF Rest
  <2>2. pc["agent"] \notin {"off", "start"} /\ shell # "off"
    BY <2>1 DEF Control, Phases
  <2>3. m \in Messages /\ m.kind = "output"
    BY <1>17, TypeFacts, Shortened DEF StreamCopies, Messages, Kinds
  <2> QED BY <2>1, <2>2, <2>3, FirstPut
<1>18. ASSUME StreamEnds PROVE FirstCalm
  BY <1>q, <1>18 DEF StreamEnds, Go, webRest, TypeOK, Goroutines
<1>19. ASSUME ShellReads \/ ShellWrites \/ ShellExits PROVE FirstCalm
  BY <1>q, <1>19 DEF ShellReads, ShellWrites, ShellExits, shellRest
<1>20. ASSUME WebStops PROVE FirstCalm
  <2>1. UNCHANGED <<shell, shown>> /\ Closes({"front", "back"}) /\ pc'["agent"] = pc["agent"]
    BY <1>20, CloseIs DEF WebStops, webRest, TypeOK, Goroutines
  <2>2. /\ ~open'["back"] /\ to'["back"] = <<>> /\ to'["browser"] = to["browser"]
        /\ open'["browser"] <=> open["browser"]
    BY <2>1, EndsDef DEF Closes
  <2> QED BY <2>1, <2>2 DEF FirstCalm, Fewer, DownOpen
<1>21. CASE Browser
  BY <1>21, <1>1, <1>2, <1>3, FirstCalmKeeps DEF Browser
<1>22. CASE Web
  BY <1>22, <1>3, <1>4, <1>5, <1>6, <1>7, FirstCalmKeeps DEF Web
<1>23. CASE Up \/ Down
  BY <1>23, <1>8, <1>9, FirstCalmKeeps, FirstCopy DEF Down
<1>24. CASE Agent \/ Reader \/ Stream
  BY <1>24, <1>11, <1>12, <1>13, <1>14, <1>15, <1>16, <1>17, <1>18, FirstCalmKeeps
     DEF Agent, Reader, Stream
<1>25. CASE ShellReads \/ ShellWrites \/ ShellExits \/ WebStops \/ AgentStops
  BY <1>25, <1>14, <1>19, <1>20, FirstCalmKeeps
<1> QED BY <1>21, <1>22, <1>23, <1>24, <1>25 DEF Next

-----------------------------------------------------------------------------
(* The invariant holds. *)

(* In the beginning there is nothing to lose.                               *)
LEMMA Initially ==
    ASSUME Init
    PROVE  IInv
<1>1. Cap \in Nat \ {0} /\ Traffic \in Nat
  BY ExecAssumption
<1>2. \A M : <<>> \in Holds(M)
  <2>1. ASSUME NEW M PROVE <<>> \in Holds(M)
    <3>1. <<>> \in Holds(M) <=> <<>> \in Seq(M) /\ Len(<<>>) <= Cap
      BY <1>1, HoldsDef, Zenon
    <3> QED BY <1>1, <3>1, EmptySeq
  <2> QED BY <2>1
<1>3. /\ to = [e \in Ends |-> to[e]]
      /\ \A e \in {"browser", "front", "back", "agent"} : to[e] = <<>>
      /\ open = [e \in Ends |-> open[e]]
      /\ ~open["back"] /\ ~open["agent"]
      /\ pty = NoTerminal /\ shell = "off" /\ cancelled = FALSE
      /\ told = [n |-> 0, odd |-> {}, asked |-> FALSE, closed |-> FALSE]
      /\ wrote = 0 /\ got = <<>> /\ shown = <<>>
  BY EndsDef DEF Init
<1>4. /\ pc \in [Goroutines -> Steps]
      /\ pc["web"] = "check" /\ pc["agent"] = "off" /\ pc["reader"] = "off"
      /\ pc["up"] = "off" /\ pc["down"] = "off"
  BY DEF Init, Goroutines, Steps
<1>5. OtherTypes
  <2>1. open \in [Ends -> BOOLEAN]
    BY DEF Init
  <2>2. pty \in [open : BOOLEAN, in : Holds(1..Traffic), out : Holds(1..Traffic)]
    BY <1>2, <1>3 DEF NoTerminal
  <2>3. told \in [n : 0..Traffic, odd : SUBSET (1..Traffic), asked : BOOLEAN, closed : BOOLEAN]
    BY <1>1, <1>3
  <2>4. got \in Seq(1..Traffic) /\ shown \in Seq(Outputs)
    BY <1>3
  <2> QED BY <1>1, <1>3, <1>4, <2>1, <2>2, <2>3, <2>4 DEF OtherTypes
<1>6. TypeOK
  BY <1>2, <1>3, <1>5 DEF OtherTypes, TypeOK, Steps
<1>7. ~pty.open /\ pty.in = <<>> /\ pty.out = <<>> /\ told.n = 0 /\ told.odd = {}
  BY <1>3 DEF NoTerminal
<1>8. Control
  BY <1>3, <1>4, <1>7, EndsDef DEF Control, Phases
<1>9. UpInv
  BY <1>3, <1>7 DEF UpInv, Labels, Rises, Feeding
<1>10. DownInv
  <2>1. Follows(<<>>, Output, 0, 0)
    BY FollowsEmpty
  <2>2. ~DownOpen /\ Follows(to["browser"], Output, 0, 0) /\ 0 <= wrote /\ 0 \in Nat
    BY <1>3, <2>1 DEF DownOpen
  <2>3. FromWeb(0)
    BY <2>2 DEF FromWeb
  <2> QED BY <1>3, <2>1, <2>2, <2>3 DEF DownInv
<1>11. FirstInv
  BY <1>3, KindsEmpty DEF FirstInv
<1> QED BY <1>6, <1>8, <1>9, <1>10, <1>11 DEF IInv

(* Every step keeps the invariant.                                          *)
LEMMA Inductive ==
    ASSUME IInv, [Next]_vars
    PROVE  IInv'
<1>1. CASE Next
  BY <1>1, TypesSplit, QueuesKept, OtherTypesKept, PhasesKept, UpKept, DownKept, FirstKept
     DEF QueuesOK, Control, IInv
<1>2. CASE UNCHANGED vars
  <2>1. UNCHANGED <<pc, to, open, pty, shell, cancelled, told, wrote, got, shown>>
    BY <1>2 DEF vars
  <2>2. TypeOK'
    BY <2>1 DEF IInv, TypeOK
  <2>3. Control'
    BY <2>1 DEF IInv, Control, Phases
  <2>4. UpInv'
    BY <2>1 DEF IInv, UpInv, Upward, UpOpen, Feeding, Alive
  <2>5. DownInv'
    BY <2>1 DEF IInv, DownInv, FromWeb, FromAgent, DownOpen
  <2>6. FirstInv'
    BY <2>1 DEF IInv, FirstInv, LedInv, DownOpen
  <2> QED BY <2>2, <2>3, <2>4, <2>5, <2>6 DEF IInv
<1> QED BY <1>1, <1>2

(* The invariant behind the theorems below.                                 *)
THEOREM ExecInvariant == Spec => []IInv
<1>1. Init => IInv
  BY Initially
<1>2. IInv /\ [Next]_vars => IInv'
  BY Inductive
<1> QED BY <1>1, <1>2, PTL DEF Spec

(* No connection and no terminal ever holds more than Cap messages, all of  *)
(* its direction.                                                           *)
THEOREM TypeCorrect == Spec => []TypeOK
<1>1. IInv => TypeOK
  BY DEF IInv
<1> QED BY <1>1, ExecInvariant, PTL

-----------------------------------------------------------------------------
(* The session implements RemoteShell. *)

(* Nothing of the promise is touched. *)
Keeps ==
    /\ told'.n = told.n /\ told'.odd = told.odd
    /\ UNCHANGED <<got, wrote, shown, shell>>

(* Such a step is no step of RemoteShell.                                   *)
LEMMA KeepsRefines ==
    ASSUME Keeps
    PROVE  UNCHANGED Promise!vars
    BY DEF Keeps, Promise!vars

(* Send is Type.                                                            *)
LEMMA SendRefines ==
    ASSUME TypeOK, Control, NEW kind, Send(kind)
    PROVE  Promise!Type
<1>1. /\ told' = [told EXCEPT !.n = @ + 1,
                              !.odd = IF kind = "odd" THEN @ \cup {told.n + 1} ELSE @]
      /\ UNCHANGED <<got, wrote, shown, shell>>
  BY SendIs
<1>2. told \in [n : 0..Traffic, odd : SUBSET (1..Traffic), asked : BOOLEAN, closed : BOOLEAN]
  BY DEF TypeOK
<1>3. /\ told'.n = told.n + 1
      /\ told'.odd = IF kind = "odd" THEN told.odd \cup {told.n + 1} ELSE told.odd
  BY <1>1, <1>2
<1> QED BY <1>1, <1>3 DEF Promise!Type

(* A message shown is Output or Announce.                                   *)
LEMMA ShowRefines ==
    ASSUME IInv, Show
    PROVE  Keeps \/ Promise!Output \/ Promise!Announce
<1> DEFINE m == Head(to["browser"])
<1> USE DEF IInv
<1>1. CASE UNCHANGED shown
  BY <1>1, ShowIs DEF Keeps
<1>2. CASE shown' # shown
  <2>1. /\ open["browser"] /\ to["browser"] # <<>> /\ m.kind # "eof"
        /\ shown' = Append(shown, m)
        /\ Took("browser") /\ to'["back"] = to["back"]
        /\ UNCHANGED <<told, pc, open, pty, shell, wrote, got>>
    BY <1>2, ShowIs, EndsDef DEF Rest
  <2>2. /\ m.kind = "output" =>
              \E s \in Nat : Follows(shown, Output, 0, s) /\ m.n = s + 1 /\ s + 1 <= wrote
    BY <2>1, ShowIsDue
  <2>3. /\ shell # "off" => (m.kind = "connected" <=> shown = <<>>)
        /\ shell = "off" => m.kind = "error"
        /\ m.kind = "closed" => shell \in {"exited", "orphan"}
    BY <2>1, FirstShow
  <2>4. m \in Outputs /\ m = [kind |-> m.kind, n |-> m.n]
    BY <2>1, QueueStep, EndsDef DEF Carries, Outputs
  <2>5. CASE m.kind = "output"
    <3>1. PICK s \in Nat : Follows(shown, Output, 0, s) /\ m.n = s + 1 /\ s + 1 <= wrote
      BY <2>2, <2>5
    <3>2. wrote \in Nat /\ m.n \in 1..wrote
      BY <3>1 DEF TypeOK
    <3>3. shown \in Seq(Messages)
      BY TypeFacts
    <3>4. m.n \notin Promise!Displayed
      <4>1. ASSUME NEW i \in DOMAIN shown, shown[i].kind = "output" PROVE shown[i].n # m.n
        <5>1. shown[i] \in Messages
          BY <3>3, ElementOfSeq, LenProperties
        <5>2. shown[i].n <= s /\ shown[i].n \in Nat
          BY <3>1, <4>1, <5>1 DEF Follows, Output, Messages
        <5> QED BY <3>1, <5>2
      <4> QED BY <4>1 DEF Promise!Displayed, Promise!Elements
    <3>5. 1..(m.n - 1) \subseteq Promise!Displayed
      <4>1. ASSUME NEW k \in 1..(m.n - 1) PROVE k \in Promise!Displayed
        <5>1. k \in (0 + 1)..s
          BY <3>1, <4>1
        <5>2. PICK i \in DOMAIN shown : shown[i].kind \in Output /\ shown[i].n = k
          BY <3>1, <5>1 DEF Follows
        <5> QED BY <5>2 DEF Promise!Displayed, Promise!Elements, Output
      <4> QED BY <4>1
    <3>6. shown # <<>> /\ shown' = Append(shown, [kind |-> "output", n |-> m.n])
      BY <2>1, <2>3, <2>4, <2>5
    <3> QED BY <2>1, <3>2, <3>4, <3>5, <3>6 DEF Promise!Output, Promise!Due
  <2>6. CASE m.kind # "output"
    <3>1. m.kind \in {"connected", "error", "closed"} /\ m.n = 0
      BY <2>1, <2>4, <2>6 DEF Outputs
    <3>2. shown' = Append(shown, [kind |-> m.kind, n |-> 0])
      BY <2>1, <2>4, <3>1
    <3> QED BY <2>1, <2>3, <3>1, <3>2 DEF Promise!Announce
  <2> QED BY <2>5, <2>6
<1> QED BY <1>1, <1>2

(* What the shell reads is due.                                             *)
LEMMA ReadRefines ==
    ASSUME IInv, ShellReads
    PROVE  Promise!Read
<1>1. /\ shell = "running" /\ got' = Append(got, Head(pty.in))
      /\ UNCHANGED <<told, wrote, shown, shell>>
  BY DEF ShellReads, shellRest, Alive
<1>2. /\ Head(pty.in) \in 1..told.n
      /\ Head(pty.in) \notin told.odd \cup Elements(got)
      /\ \A n \in 1..(Head(pty.in) - 1) : n \in told.odd \cup Elements(got)
  BY ReadIsDue DEF IInv
<1>3. Elements(got) = Promise!Elements(got)
  BY DEF Elements, Promise!Elements
<1>4. Promise!Due(Head(pty.in), told.odd \cup Promise!Elements(got))
  BY <1>2, <1>3 DEF Promise!Due
<1> QED BY <1>1, <1>2, <1>4 DEF Promise!Read

(* Every step is one that RemoteShell allows, or none.                      *)
LEMMA StepRefines ==
    ASSUME IInv, [Next]_vars
    PROVE  [Promise!Next]_Promise!vars
<1>0. TypeOK /\ Control
  BY DEF IInv
<1>1. CASE Browser
  <2>1. ASSUME SendClose PROVE Keeps
    BY <1>0, <2>1, SendCloseIs DEF Keeps, TypeOK
  <2>2. BrowserGone => Keeps
    BY DEF BrowserGone, browserRest, Keeps
  <2> QED BY <1>0, <1>1, <2>1, <2>2, SendRefines, ShowRefines, KeepsRefines
             DEF Browser, Promise!Next
<1>2. CASE Web \/ Up \/ Down
  <2>1. Keeps
    BY <1>2 DEF Web, Up, Down, Refuse, DialUnix, Accept, Disconnect, WriteClose, Return,
                Copy, CopyFails, webRest, Keeps
  <2> QED BY <2>1, KeepsRefines
<1>3. CASE Agent
  <2>1. CASE StartPTYExec
    <3>1. shell = "off" /\ shown = <<>>
      BY <2>1 DEF StartPTYExec, IInv, Control, Phases, FirstInv
    <3>2. UNCHANGED <<told, wrote, got, shown>> /\ (shell' = "running" \/ UNCHANGED shell)
      BY <2>1 DEF StartPTYExec
    <3>3. Promise!Start \/ Keeps
      BY <3>1, <3>2 DEF Promise!Start, Keeps
    <3> QED BY <3>3, KeepsRefines DEF Promise!Next
  <2>2. CASE Wait \/ WriteClosed \/ AgentReturn
    <3>1. Keeps
      BY <2>2 DEF Wait, WriteClosed, AgentReturn, webRest, Keeps
    <3> QED BY <3>1, KeepsRefines
  <2> QED BY <1>3, <2>1, <2>2 DEF Agent
<1>4. CASE Reader \/ Stream
  <2>1. Keeps
    BY <1>4 DEF Reader, Stream, ReaderPasses, ReaderEnds, StreamCopies, StreamEnds,
                webRest, Keeps
  <2> QED BY <2>1, KeepsRefines
<1>5. CASE ShellReads
  BY <1>5, ReadRefines DEF Promise!Next
<1>6. CASE ShellWrites
  <2>1. Promise!Write
    BY <1>6 DEF ShellWrites, Alive, shellRest, Promise!Write
  <2> QED BY <2>1 DEF Promise!Next
<1>7. CASE ShellExits
  <2>1. Promise!End
    BY <1>7 DEF ShellExits, shellRest, Promise!End
  <2> QED BY <2>1 DEF Promise!Next
<1>8. CASE WebStops
  <2>1. Keeps
    BY <1>8 DEF WebStops, webRest, Keeps
  <2> QED BY <2>1, KeepsRefines
<1>9. CASE AgentStops
  <2>1. Promise!End \/ Keeps
    BY <1>9 DEF AgentStops, Promise!End, Keeps
  <2> QED BY <2>1, KeepsRefines DEF Promise!Next
<1>10. CASE UNCHANGED vars
  <2>1. Keeps
    BY <1>10 DEF vars, Keeps
  <2> QED BY <2>1, KeepsRefines
<1> QED
  BY <1>1, <1>2, <1>3, <1>4, <1>5, <1>6, <1>7, <1>8, <1>9, <1>10 DEF Next

(* Through connections and goroutines that drop errors, block and die, the  *)
(* shell reads and the browser shows what RemoteShell promises: in order,   *)
(* nothing twice, nothing left out before what arrives.                     *)
THEOREM ShellKeepsPromise == Spec => KeepsPromise
<1>1. Init => Promise!Init
  BY DEF Init, Promise!Init
<1>2. IInv /\ [Next]_vars => [Promise!Next]_Promise!vars
  BY StepRefines
<1> QED BY <1>1, <1>2, ExecInvariant, PTL DEF Spec, KeepsPromise, Promise!Spec

-----------------------------------------------------------------------------
(* What the promise says of the two histories. *)

ReadInOrder ==
    /\ Rises(got)
    /\ \A i \in DOMAIN got : 1..got[i] \subseteq Elements(got) \cup told.odd

ShownInOrder ==
    /\ \E s \in 0..wrote : Follows(shown, Output, 0, s)
    /\ shell # "off" => Led(shown, {})
    /\ shell = "off" => \A i \in DOMAIN shown : shown[i].kind = "error"

(* The inputs the shell has read rise and leave out none but those it does  *)
(* not read; the browser has shown a prefix of the output, after            *)
(* "connected", and nothing but errors of a shell that did not start.       *)
THEOREM HistoriesInOrder == Spec => [](ReadInOrder /\ ShownInOrder)
<1>1. ASSUME IInv PROVE ReadInOrder
  BY <1>1 DEF IInv, UpInv, ReadInOrder
<1>2. ASSUME IInv PROVE ShownInOrder
  <2>1. PICK s \in Nat : Follows(shown, Output, 0, s) /\ s <= wrote
    BY <1>2 DEF IInv, DownInv
  <2>2. s \in 0..wrote
    BY <1>2, <2>1 DEF IInv, TypeOK
  <2>3. shell # "off" => Led(shown, {})
    BY <1>2 DEF IInv, FirstInv, LedInv
  <2>4. shell = "off" => \A i \in DOMAIN shown : shown[i].kind = "error"
    BY <1>2 DEF IInv, FirstInv, KindsOf
  <2> QED BY <2>1, <2>2, <2>3, <2>4 DEF ShownInOrder
<1>3. IInv => ReadInOrder /\ ShownInOrder
  BY <1>1, <1>2
<1> QED BY <1>3, ExecInvariant, PTL
=============================================================================
