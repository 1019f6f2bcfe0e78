----------------------- MODULE NativeResourcesProofs -----------------------
(***************************************************************************)
(* Proofs about the native functions of MetadataServices: whatever raises, *)
(* nothing is freed twice and nothing is left, for any number of rounds of *)
(* their loops.                                                            *)
(*                                                                         *)
(* The steps of a call are those of a small machine over data: who runs,   *)
(* what is held, what was freed.  A state of it is safe if no run from it  *)
(* meets a bad one.  The rules below then treat a function the way it is   *)
(* written, part by part: a triple says that whatever comes after a part   *)
(* is reached safely, from what the part leaves when it ends and from what *)
(* it leaves when it raises.                                               *)
(***************************************************************************)
EXTENDS MetadataServicesProofs, SequenceTheorems, WellFoundedInduction

LEMMA NativeAssumption == MaxRounds \in Nat /\ Functions \subseteq DOMAIN Native!Body
BY MetadataServicesAssumption

-----------------------------------------------------------------------------
(* The machine: what a step does to the blocks and to what is held. *)

\* The frames and the statements are sequences of anything.
IsSequence(s) == \E S : s \in Seq(S)
\* A block: what remains of it, its finally clause, and whether an exception passes it.
Frame(rest, final, raising) == [rest |-> rest, final |-> final, raising |-> raising]
Trying(rest, final) == Frame(rest, final, FALSE)
Finally(rest) == Frame(rest, <<>>, TRUE)
Push(frame, fs) == <<frame>> \o fs

\* What the variables say but for the frames; an invalid handle is had too.
NativeData ==
  [function : Functions, have : SUBSET Native!Resources, freed : SUBSET Native!Resources,
   wrong : BOOLEAN, raised : BOOLEAN, rounds : 0 .. MaxRounds]

\* The first half of NothingLeft: what is wrong is one of the known double frees.
Fine(d) == d.wrong => Native!FreedTwice(d.function, d.raised)
\* The second half, for a call that is over.
GivenBack(d) ==
  d.have \subseteq
    Native!Kept(d.function) \cup (IF d.raised THEN Native!KeptByException(d.function) ELSE {})

\* The calls that are about a resource.
Takes == {"get", "have", "find", "use", "free", "free if", "null"}

\* The call o succeeds. It may do anything to what is not a resource: the rules below have
\* to show that this is not asked of it.
Done(o, d, e) ==
  /\ e.function = d.function /\ e.rounds = d.rounds /\ (d.raised => e.raised)
  /\ \/ /\ o.do = "call" /\ e.have = d.have /\ e.freed = d.freed
        /\ e.wrong => d.wrong
     \/ /\ o.do \in {"get", "have", "find"}
        /\ e.have = d.have \cup {o.r} /\ e.freed = d.freed \ {o.r}
        /\ e.wrong => d.wrong \/ o.r \in d.have
     \/ /\ o.do = "use" /\ e.have = d.have /\ e.freed = d.freed
        /\ e.wrong => d.wrong \/ o.r \notin d.have
     \/ /\ o.do = "free" /\ e.have = d.have \ {o.r} /\ e.freed = d.freed \cup {o.r}
        /\ e.wrong => d.wrong \/ o.r \notin d.have
     \/ /\ o.do = "free if" /\ e.have = d.have \ {o.r} /\ e.freed \subseteq d.freed \cup {o.r}
        /\ e.wrong => d.wrong \/ o.r \in d.freed
     \/ /\ o.do = "null" /\ e.have = d.have \ {o.r} /\ e.freed = d.freed \ {o.r}
        /\ e.wrong => d.wrong \/ o.r \in d.have
     \/ o.do \in Takes /\ o.r \notin Native!Resources

\* The call o raises.
Fails(o, d, e) ==
  /\ o.do \in {"call", "get", "use", "raise"}
  /\ e.function = d.function /\ e.rounds = d.rounds /\ e.raised
  /\ e.have = d.have /\ e.freed = d.freed
  /\ e.wrong => d.wrong \/ (o.do = "use" /\ o.r \notin d.have)

\* Nothing changes but that a call may have raised, or a loop goes round.
SameHeld(d, e) ==
  /\ e.function = d.function /\ (d.raised => e.raised) /\ e.have = d.have /\ e.freed = d.freed
  /\ e.wrong => d.wrong

Quiet(d, e) == SameHeld(d, e) /\ e.rounds = d.rounds

\* The innermost block goes on with rest.
Put(fs, rest) == <<[fs[1] EXCEPT !.rest = rest]>> \o Tail(fs)

\* A step, from the blocks fs and the data d to gs and e. It allows a little more than Next.
Leads(fs, d, gs, e) ==
  /\ fs # <<>> /\ e \in NativeData
  /\ LET o == Head(fs[1].rest)  after == Tail(fs[1].rest) IN
     \/ /\ fs[1].rest # <<>>
        /\ \/ Fails(o, d, e) /\ gs = Native!Out(fs)
           \/ Done(o, d, e) /\ gs = Put(fs, after)
           \/ /\ o.do = "try" /\ Quiet(d, e)
              /\ gs = <<Trying(o.body, o.final), [fs[1] EXCEPT !.rest = after]>> \o Tail(fs)
           \/ /\ o.do = "either" /\ Quiet(d, e)
              /\ gs \in {Put(fs, o.this \o after), Put(fs, o.other \o after)}
           \/ /\ o.do = "many" /\ SameHeld(d, e) /\ d.rounds < MaxRounds /\ e.rounds = d.rounds + 1
              /\ gs = Put(fs, o.body \o fs[1].rest)
           \/ o.do = "many" /\ Quiet(d, e) /\ gs = Put(fs, after)
     \/ /\ fs[1].rest = <<>> /\ Quiet(d, e)
        /\ gs = IF fs[1].final # <<>> THEN Push(Trying(fs[1].final, <<>>), Tail(fs))
                ELSE IF fs[1].raising THEN Native!Out(Tail(fs)) ELSE Tail(fs)

\* A set of states without a bad one, which no step leaves.
Closed(G) ==
  \A fs, d : <<fs, d>> \in G =>
    /\ Fine(d) /\ (fs = <<>> => GivenBack(d))
    /\ \A gs, e : Leads(fs, d, gs, e) => <<gs, e>> \in G

\* No run from here meets a bad state. This needs no induction over runs: one closed set is
\* enough, and the union of closed sets is closed.
Safe(fs, d) == \E G : <<fs, d>> \in G /\ Closed(G)

\* A safe state is a good one.
LEMMA SafeIsFine ==
  ASSUME NEW fs, NEW d, Safe(fs, d)
  PROVE  Fine(d) /\ (fs = <<>> => GivenBack(d))
BY DEF Safe, Closed

\* And every step from it leads to a safe one.
LEMMA SafeNext ==
  ASSUME NEW fs, NEW d, Safe(fs, d), NEW gs, NEW e, Leads(fs, d, gs, e)
  PROVE  Safe(gs, e)
BY DEF Safe, Closed

\* The converse: a good state from which every step leads to a safe one is safe. The set F
\* only keeps the closed sets of its successors a set.
LEMMA SafeStep ==
  ASSUME NEW fs, NEW d, Fine(d), fs = <<>> => GivenBack(d), NEW F,
         \A gs, e : Leads(fs, d, gs, e) => gs \in F /\ Safe(gs, e)
  PROVE  Safe(fs, d)
<1> DEFINE S == {s \in F \X NativeData : Leads(fs, d, s[1], s[2])}
           W(s) == CHOOSE G : s \in G /\ Closed(G)
           H == {<<fs, d>>} \cup UNION {W(s) : s \in S}
<1>1. ASSUME NEW s \in S PROVE s \in W(s) /\ Closed(W(s))
  <2>1. PICK gs \in F, e \in NativeData : s = <<gs, e>>
    OBVIOUS
  <2>2. Safe(gs, e)
    BY <2>1
  <2>3. \E G : s \in G /\ Closed(G)
    BY <2>1, <2>2 DEF Safe
  <2>4. QED
    BY <2>3
<1>2. ASSUME NEW gs, NEW e, Leads(fs, d, gs, e) PROVE <<gs, e>> \in H
  <2>1. <<gs, e>> \in S
    BY <1>2 DEF Leads
  <2>2. QED
    BY <2>1, <1>1
<1>3. ASSUME NEW fs1, NEW d1, <<fs1, d1>> \in H,  <<fs1, d1>> # <<fs, d>>
      PROVE /\ Fine(d1) /\ (fs1 = <<>> => GivenBack(d1))
            /\ \A gs, e : Leads(fs1, d1, gs, e) => <<gs, e>> \in H
  <2>1. PICK s \in S : <<fs1, d1>> \in W(s)
    BY <1>3
  <2>2. Closed(W(s))
    BY <1>1
  <2>3. \A z \in W(s) : z \in H
    OBVIOUS
  <2> HIDE DEF H, W, S
  <2>4. QED
    BY <2>1, <2>2, <2>3 DEF Closed
<1> HIDE DEF H, W, S
<1>4. Closed(H)
  BY <1>2, <1>3 DEF Closed
<1>5. <<fs, d>> \in H
  BY DEF H
<1>6. QED
  BY <1>4, <1>5 DEF Safe

-----------------------------------------------------------------------------
(* What a part of a function needs and leaves, whatever it is a part of. *)

\* From P, whatever comes after p: if what comes after p is safe from Q, and the way of an
\* exception out of the block from E, then so is p before it. The bound m is for loops: a
\* state with more rounds behind it is nearer to the end.
Triple(p, P, Q, E) ==
  /\ IsSequence(p)
  /\ \A k, final, raising, fs, m :
       /\ IsSequence(k) /\ IsSequence(fs) /\ m \in Nat
       /\ \A d \in Q : d.rounds >= m => Safe(Push(Frame(k, final, raising), fs), d)
       /\ \A d \in E : d.rounds >= m => Safe(Push(Finally(final), fs), d)
       => \A d \in P : d.rounds >= m => Safe(Push(Frame(p \o k, final, raising), fs), d)

\* A concatenation is a sequence.
LEMMA Concatenated ==
  ASSUME NEW p, IsSequence(p), NEW q, IsSequence(q)
  PROVE  IsSequence(p \o q)
<1>1. PICK S : p \in Seq(S)
  BY DEF IsSequence
<1>2. PICK T : q \in Seq(T)
  BY DEF IsSequence
<1>3. p \in Seq(S \cup T) /\ q \in Seq(S \cup T)
  BY <1>1, <1>2
<1>4. QED
  BY <1>3 DEF IsSequence

\* Concatenation is associative, whatever the elements are.
LEMMA Associative ==
  ASSUME NEW p, IsSequence(p), NEW q, IsSequence(q), NEW k, IsSequence(k)
  PROVE  (p \o q) \o k = p \o (q \o k)
<1>1. PICK S : p \in Seq(S)
  BY DEF IsSequence
<1>2. PICK T : q \in Seq(T)
  BY DEF IsSequence
<1>3. PICK U : k \in Seq(U)
  BY DEF IsSequence
<1>4. p \in Seq(S \cup T \cup U) /\ q \in Seq(S \cup T \cup U) /\ k \in Seq(S \cup T \cup U)
  BY <1>1, <1>2, <1>3
<1>5. QED
  BY <1>4

\* The parts of a sequence with a new first element.
LEMMA Pushed ==
  ASSUME NEW o, NEW k, IsSequence(k)
  PROVE  /\ <<o>> \o k # <<>> /\ Head(<<o>> \o k) = o /\ Tail(<<o>> \o k) = k
         /\ (<<o>> \o k)[1] = o
<1>1. PICK S : k \in Seq(S)
  BY DEF IsSequence
<1>2. k \in Seq(S \cup {o}) /\ <<o>> \in Seq(S \cup {o})
  BY <1>1
<1>3. Tail(<<o>> \o k) = k
  BY <1>2
<1>4. QED
  BY <1>2, <1>3

\* A sequence of one element.
LEMMA Singleton == ASSUME NEW o PROVE IsSequence(<<o>>)
<1>1. <<o>> \in Seq({o})
  OBVIOUS
<1>2. QED
  BY <1>1 DEF IsSequence

\* The empty sequence.
LEMMA Empty == IsSequence(<<>>) /\ \A k : IsSequence(k) => <<>> \o k = k /\ k \o <<>> = k
<1>1. <<>> \in Seq({})
  OBVIOUS
<1>2. ASSUME NEW k, IsSequence(k) PROVE <<>> \o k = k /\ k \o <<>> = k
  <2>1. PICK S : k \in Seq(S)
    BY <1>2 DEF IsSequence
  <2>2. QED
    BY <2>1
<1>3. QED
  BY <1>1, <1>2 DEF IsSequence

\* A pair is made of two sequences of one.
LEMMA Joined ==
  ASSUME NEW a, NEW b
  PROVE  <<a, b>> = <<a>> \o <<b>>
<1> DEFINE S == {a, b}
           c == <<a>> \o <<b>>
<1>1. <<a>> \in Seq(S) /\ <<b>> \in Seq(S) /\ <<a, b>> \in Seq(S)
  OBVIOUS
<1>2. c \in Seq(S) /\ Len(c) = 2 /\ c[1] = a /\ c[2] = b
  BY <1>1
<1>3. \A i \in 1 .. 2 : c[i] = <<a, b>>[i]
  BY <1>2
<1>4. QED
  BY <1>1, <1>2, <1>3, SeqEqual

\* Two frames on top are pushed one after the other.
LEMMA PushTwo ==
  ASSUME NEW a, NEW b, NEW fs, IsSequence(fs)
  PROVE  <<a, b>> \o fs = Push(a, Push(b, fs))
BY Joined, Singleton, Associative DEF Push

\* A step from a block with the statement o in front.
LEMMA LeadsRunning ==
  ASSUME NEW o, NEW k, IsSequence(k), NEW final, NEW raising, NEW fs, IsSequence(fs),
         NEW d, NEW gs, NEW e, Leads(Push(Frame(<<o>> \o k, final, raising), fs), d, gs, e)
  PROVE  /\ e \in NativeData
         /\ \/ Fails(o, d, e) /\ gs = Push(Finally(final), fs)
            \/ Done(o, d, e) /\ gs = Push(Frame(k, final, raising), fs)
            \/ /\ o.do = "try" /\ Quiet(d, e)
               /\ gs = Push(Trying(o.body, o.final), Push(Frame(k, final, raising), fs))
            \/ /\ o.do = "either" /\ Quiet(d, e)
               /\ gs \in {Push(Frame(o.this \o k, final, raising), fs),
                          Push(Frame(o.other \o k, final, raising), fs)}
            \/ /\ o.do = "many" /\ SameHeld(d, e) /\ d.rounds < MaxRounds /\ e.rounds = d.rounds + 1
               /\ gs = Push(Frame(o.body \o (<<o>> \o k), final, raising), fs)
            \/ o.do = "many" /\ Quiet(d, e) /\ gs = Push(Frame(k, final, raising), fs)
<1> DEFINE top == Frame(<<o>> \o k, final, raising)
           ts == Push(top, fs)
<1>1. ts # <<>> /\ ts[1] = top /\ Tail(ts) = fs
  BY Pushed DEF Push
<1>2. top.rest # <<>> /\ Head(top.rest) = o /\ Tail(top.rest) = k
  BY Pushed DEF Frame
<1>3. ASSUME NEW r PROVE Put(ts, r) = Push(Frame(r, final, raising), fs)
  BY <1>1 DEF Put, Push, Frame
<1>4. Native!Out(ts) = Push(Finally(final), fs)
  <2>1. top.final = final
    BY DEF Frame
  <2>2. QED
    BY <1>1, <2>1 DEF Native!Out, Push, Finally, Frame
<1>5. [top EXCEPT !.rest = k] = Frame(k, final, raising)
  BY DEF Frame
<1>6. top.rest = <<o>> \o k
  BY DEF Frame
<1> HIDE DEF ts, top
<1>7. Leads(ts, d, gs, e)
  BY DEF ts, top
<1>8. \A r : <<r, Frame(k, final, raising)>> \o fs = Push(r, Push(Frame(k, final, raising), fs))
  BY PushTwo
<1>9. /\ e \in NativeData
      /\ \/ Fails(o, d, e) /\ gs = Native!Out(ts)
         \/ Done(o, d, e) /\ gs = Put(ts, k)
         \/ /\ o.do = "try" /\ Quiet(d, e)
            /\ gs = <<Trying(o.body, o.final), [top EXCEPT !.rest = k]>> \o fs
         \/ o.do = "either" /\ Quiet(d, e) /\ gs \in {Put(ts, o.this \o k), Put(ts, o.other \o k)}
         \/ /\ o.do = "many" /\ SameHeld(d, e) /\ d.rounds < MaxRounds /\ e.rounds = d.rounds + 1
            /\ gs = Put(ts, o.body \o top.rest)
         \/ o.do = "many" /\ Quiet(d, e) /\ gs = Put(ts, k)
  BY <1>1, <1>2, <1>7, Zenon DEF Leads
<1>10. QED
  BY <1>3, <1>4, <1>5, <1>6, <1>8, <1>9

\* A step from a block with nothing left of it.
LEMMA LeadsEnded ==
  ASSUME NEW top, top.rest = <<>>, NEW fs, IsSequence(fs),
         NEW d, NEW gs, NEW e, Leads(Push(top, fs), d, gs, e)
  PROVE  /\ e \in NativeData /\ Quiet(d, e)
         /\ gs = IF top.final # <<>> THEN Push(Trying(top.final, <<>>), fs)
                 ELSE IF top.raising THEN Native!Out(fs) ELSE fs
<1> DEFINE ts == Push(top, fs)
<1>1. ts # <<>> /\ ts[1] = top /\ Tail(ts) = fs
  BY Pushed DEF Push
<1> HIDE DEF ts
<1>2. Leads(ts, d, gs, e)
  BY DEF ts
<1>3. QED
  BY <1>1, <1>2 DEF Leads

\* The end of a block with a finally clause starts that.
LEMMA LeadsFinal ==
  ASSUME NEW final, final # <<>>, NEW fs, IsSequence(fs),
         NEW d, NEW gs, NEW e, Leads(Push(Trying(<<>>, final), fs), d, gs, e)
  PROVE  e \in NativeData /\ Quiet(d, e) /\ gs = Push(Trying(final, <<>>), fs)
<1> DEFINE top == Trying(<<>>, final)
<1>1. top.rest = <<>> /\ top.final = final
  BY DEF Trying, Frame
<1> HIDE DEF top
<1>2. Leads(Push(top, fs), d, gs, e)
  BY DEF top
<1>3. QED
  BY <1>1, <1>2, LeadsEnded

\* The end of a finally clause, when nothing was raised, goes on outside.
LEMMA LeadsOutside ==
  ASSUME NEW fs, IsSequence(fs),
         NEW d, NEW gs, NEW e, Leads(Push(Trying(<<>>, <<>>), fs), d, gs, e)
  PROVE  e \in NativeData /\ Quiet(d, e) /\ gs = fs
<1> DEFINE top == Trying(<<>>, <<>>)
<1>1. top.rest = <<>> /\ top.final = <<>> /\ ~ top.raising
  BY DEF Trying, Frame
<1> HIDE DEF top
<1>2. Leads(Push(top, fs), d, gs, e)
  BY DEF top
<1>3. QED
  BY <1>1, <1>2, LeadsEnded

\* The end of a finally clause that an exception passes raises it again outside.
LEMMA LeadsOut ==
  ASSUME NEW fs, IsSequence(fs),
         NEW d, NEW gs, NEW e, Leads(Push(Finally(<<>>), fs), d, gs, e)
  PROVE  e \in NativeData /\ Quiet(d, e) /\ gs = Native!Out(fs)
<1> DEFINE top == Finally(<<>>)
<1>1. top.rest = <<>> /\ top.final = <<>> /\ top.raising
  BY DEF Finally, Frame
<1> HIDE DEF top
<1>2. Leads(Push(top, fs), d, gs, e)
  BY DEF top
<1>3. QED
  BY <1>1, <1>2, LeadsEnded

-----------------------------------------------------------------------------
(* The rules for calls, alternatives and blocks. *)

\* The calls, as opposed to blocks, alternatives and loops.
Simple == {"call", "get", "have", "find", "use", "raise", "free", "free if", "null"}

\* An assertion is about good states.
Sound(P) == P \subseteq NativeData /\ \A d \in P : Fine(d)

\* One call.
LEMMA StepRule ==
  ASSUME NEW o, o.do \in Simple, NEW P, Sound(P), NEW Q, NEW E,
         \A d \in P, e \in NativeData : (Done(o, d, e) => e \in Q) /\ (Fails(o, d, e) => e \in E)
  PROVE  Triple(<<o>>, P, Q, E)
<1> SUFFICES ASSUME NEW k, NEW final, NEW raising, NEW fs, NEW m,
                    IsSequence(k), IsSequence(fs), m \in Nat,
                    \A d \in Q : d.rounds >= m => Safe(Push(Frame(k, final, raising), fs), d),
                    \A d \in E : d.rounds >= m => Safe(Push(Finally(final), fs), d),
                    NEW d \in P, d.rounds >= m
             PROVE  Safe(Push(Frame(<<o>> \o k, final, raising), fs), d)
  BY Singleton DEF Triple
<1> DEFINE ts == Push(Frame(<<o>> \o k, final, raising), fs)
           F == {Push(Frame(k, final, raising), fs), Push(Finally(final), fs)}
<1>1. ASSUME NEW gs, NEW e, Leads(ts, d, gs, e) PROVE gs \in F /\ Safe(gs, e)
  <2>1. /\ e \in NativeData
        /\ \/ Fails(o, d, e) /\ gs = Push(Finally(final), fs)
           \/ Done(o, d, e) /\ gs = Push(Frame(k, final, raising), fs)
    <3>1. o.do # "try" /\ o.do # "either" /\ o.do # "many"
      BY DEF Simple
    <3>2. QED
      BY <1>1, <3>1, LeadsRunning
  <2>2. CASE Fails(o, d, e) /\ gs = Push(Finally(final), fs)
    <3>1. e.rounds = d.rounds
      BY <2>2 DEF Fails
    <3>2. e \in E
      BY <2>1, <2>2
    <3>3. QED
      BY <2>2, <3>1, <3>2
  <2>3. CASE Done(o, d, e) /\ gs = Push(Frame(k, final, raising), fs)
    <3>1. e.rounds = d.rounds
      BY <2>3 DEF Done
    <3>2. e \in Q
      BY <2>1, <2>3
    <3>3. QED
      BY <2>3, <3>1, <3>2
  <2>4. QED
    BY <2>1, <2>2, <2>3
<1>2. Fine(d)
  BY DEF Sound
<1>3. ts # <<>>
  BY Pushed DEF Push
<1> HIDE DEF ts, F
<1>4. Safe(ts, d)
  BY <1>1, <1>2, <1>3, SafeStep
<1>5. QED
  BY <1>4 DEF ts

\* No call at all.
LEMMA SkipRule ==
  ASSUME NEW P, NEW Q, P \subseteq Q, NEW E
  PROVE  Triple(<<>>, P, Q, E)
BY Empty DEF Triple

\* One part after the other.
LEMMA SequenceRule ==
  ASSUME NEW p, NEW q, NEW P, NEW Q, NEW R, NEW E,
         Triple(p, P, Q, E), Triple(q, Q, R, E)
  PROVE  Triple(p \o q, P, R, E)
<1> SUFFICES ASSUME NEW k, NEW final, NEW raising, NEW fs, NEW m,
                    IsSequence(k), IsSequence(fs), m \in Nat,
                    \A d \in R : d.rounds >= m => Safe(Push(Frame(k, final, raising), fs), d),
                    \A d \in E : d.rounds >= m => Safe(Push(Finally(final), fs), d),
                    NEW d \in P, d.rounds >= m
             PROVE  Safe(Push(Frame((p \o q) \o k, final, raising), fs), d)
  BY Concatenated DEF Triple
<1>0. IsSequence(p) /\ IsSequence(q)
  BY DEF Triple
<1>1. \A c \in Q : c.rounds >= m => Safe(Push(Frame(q \o k, final, raising), fs), c)
  BY DEF Triple
<1>2. IsSequence(q \o k)
  BY <1>0, Concatenated
<1>3. Safe(Push(Frame(p \o (q \o k), final, raising), fs), d)
  BY <1>1, <1>2 DEF Triple
<1>4. (p \o q) \o k = p \o (q \o k)
  BY <1>0, Associative
<1>5. QED
  BY <1>3, <1>4, Zenon

\* More may be known before, and less afterwards.
LEMMA WeakenRule ==
  ASSUME NEW p, NEW P, NEW Q, NEW E, Triple(p, P, Q, E),
         NEW PP, PP \subseteq P, NEW QQ, Q \subseteq QQ, NEW EE, E \subseteq EE
  PROVE  Triple(p, PP, QQ, EE)
<1> SUFFICES ASSUME NEW k, NEW final, NEW raising, NEW fs, NEW m,
                    IsSequence(k), IsSequence(fs), m \in Nat,
                    \A d \in QQ : d.rounds >= m => Safe(Push(Frame(k, final, raising), fs), d),
                    \A d \in EE : d.rounds >= m => Safe(Push(Finally(final), fs), d),
                    NEW d \in PP, d.rounds >= m
             PROVE  Safe(Push(Frame(p \o k, final, raising), fs), d)
  BY DEF Triple
<1>1. \A c \in Q : c.rounds >= m => Safe(Push(Frame(k, final, raising), fs), c)
  OBVIOUS
<1>2. \A c \in E : c.rounds >= m => Safe(Push(Finally(final), fs), c)
  OBVIOUS
<1>3. d \in P
  OBVIOUS
<1>4. QED
  BY <1>1, <1>2, <1>3 DEF Triple

\* An assertion does not depend on the rounds, nor on a call not having raised.
Settled(P) == \A d \in P, e \in NativeData : SameHeld(d, e) => e \in P

\* Two alternatives.
LEMMA EitherRule ==
  ASSUME NEW this, NEW other, NEW P, Sound(P), Settled(P),
         NEW Q, NEW E, Triple(this, P, Q, E), Triple(other, P, Q, E)
  PROVE  Triple(<<Native!Either(this, other)>>, P, Q, E)
<1> DEFINE o == Native!Either(this, other)
<1> SUFFICES ASSUME NEW k, NEW final, NEW raising, NEW fs, NEW m,
                    IsSequence(k), IsSequence(fs), m \in Nat,
                    \A d \in Q : d.rounds >= m => Safe(Push(Frame(k, final, raising), fs), d),
                    \A d \in E : d.rounds >= m => Safe(Push(Finally(final), fs), d),
                    NEW d \in P, d.rounds >= m
             PROVE  Safe(Push(Frame(<<o>> \o k, final, raising), fs), d)
  BY Singleton DEF Triple
<1> DEFINE ts == Push(Frame(<<o>> \o k, final, raising), fs)
           F == {Push(Frame(this \o k, final, raising), fs),
                 Push(Frame(other \o k, final, raising), fs)}
<1>1. o.do = "either" /\ o.this = this /\ o.other = other
  BY DEF Native!Either
<1> HIDE DEF o
<1>2. ASSUME NEW gs, NEW e, Leads(ts, d, gs, e) PROVE gs \in F /\ Safe(gs, e)
  <2>1. e \in NativeData /\ Quiet(d, e) /\ gs \in F
    BY <1>1, <1>2, LeadsRunning DEF Fails, Done, Takes
  <2>2. e \in P /\ e.rounds = d.rounds
    BY <2>1 DEF Quiet, Settled
  <2>3. Safe(Push(Frame(this \o k, final, raising), fs), e)
    BY <2>2 DEF Triple
  <2>4. Safe(Push(Frame(other \o k, final, raising), fs), e)
    BY <2>2 DEF Triple
  <2>5. QED
    BY <2>1, <2>3, <2>4
<1>3. Fine(d)
  BY DEF Sound
<1>4. ts # <<>>
  BY Pushed DEF Push
<1> HIDE DEF ts, F
<1>5. Safe(ts, d)
  BY <1>2, <1>3, <1>4, SafeStep
<1>6. QED
  BY <1>5 DEF ts

\* The finally clause runs after the block and after an exception in it.
LEMMA BlockRule ==
  ASSUME NEW body, NEW final, final # <<>>,
         NEW P, Sound(P), Settled(P), NEW Q, Sound(Q), Settled(Q),
         NEW E, Sound(E), Settled(E), NEW R, Sound(R), Settled(R), NEW X, Sound(X), Settled(X),
         Triple(body, P, Q, E), Triple(final, Q, R, X), Triple(final, E, X, X)
  PROVE  Triple(<<Native!Block(body, final)>>, P, R, X)
<1> DEFINE o == Native!Block(body, final)
<1> SUFFICES ASSUME NEW k, NEW fin, NEW raising, NEW fs, NEW m,
                    IsSequence(k), IsSequence(fs), m \in Nat,
                    \A d \in R : d.rounds >= m => Safe(Push(Frame(k, fin, raising), fs), d),
                    \A d \in X : d.rounds >= m => Safe(Push(Finally(fin), fs), d),
                    NEW d \in P, d.rounds >= m
             PROVE  Safe(Push(Frame(<<o>> \o k, fin, raising), fs), d)
  BY Singleton DEF Triple
<1> DEFINE outer == Push(Frame(k, fin, raising), fs)
<1>1. o.do = "try" /\ o.body = body /\ o.final = final
  BY DEF Native!Block
<1> HIDE DEF o
<1>2. IsSequence(outer) /\ outer # <<>>
  BY Singleton, Concatenated, Pushed DEF Push
<1>3. Native!Out(outer) = Push(Finally(fin), fs)
  <2>1. outer[1] = Frame(k, fin, raising) /\ Tail(outer) = fs
    BY Pushed DEF Push
  <2>2. Frame(k, fin, raising).final = fin
    BY DEF Frame
  <2> HIDE DEF outer
  <2>3. QED
    BY <1>2, <2>1, <2>2 DEF Native!Out, Push, Finally, Frame
<1>4. \A c \in R : c.rounds >= m => Safe(outer, c)
  OBVIOUS
<1>5. \A c \in X : c.rounds >= m => Safe(Native!Out(outer), c)
  BY <1>3
<1>6. SUFFICES ASSUME NEW gs, NEW e, Leads(Push(Frame(<<o>> \o k, fin, raising), fs), d, gs, e)
               PROVE  gs \in {Push(Trying(body, final), outer)} /\ Safe(gs, e)
  <2> DEFINE ts == Push(Frame(<<o>> \o k, fin, raising), fs)
  <2>1. Fine(d)
    BY DEF Sound
  <2>2. ts # <<>>
    BY Pushed DEF Push
  <2> HIDE DEF ts, outer
  <2>3. QED
    BY <1>6, <2>1, <2>2, SafeStep DEF ts
<1>7. e \in P /\ e.rounds = d.rounds /\ gs = Push(Trying(body, final), outer)
  <2>1. e \in NativeData /\ Quiet(d, e) /\ gs = Push(Trying(body, final), outer)
    <3>1. ~ Fails(o, d, e) /\ ~ Done(o, d, e) /\ o.do # "either" /\ o.do # "many"
      BY <1>1 DEF Fails, Done, Takes
    <3>2. QED
      BY <1>1, <1>6, <3>1, LeadsRunning
  <2>2. QED
    BY <2>1 DEF Quiet, Settled
<1> HIDE DEF outer
\* The end of the finally clause.
<1>8. ASSUME NEW c \in R, c.rounds >= m PROVE Safe(Push(Trying(<<>>, <<>>), outer), c)
  <2> DEFINE ts == Push(Trying(<<>>, <<>>), outer)
  <2>1. ASSUME NEW hs, NEW b, Leads(ts, c, hs, b) PROVE hs \in {outer} /\ Safe(hs, b)
    <3>1. b \in NativeData /\ Quiet(c, b) /\ hs = outer
      BY <1>2, <2>1, LeadsOutside
    <3>2. b \in R /\ b.rounds >= m
      BY <1>8, <3>1 DEF Quiet, Settled
    <3>3. QED
      BY <1>4, <3>1, <3>2
  <2>2. Fine(c) /\ ts # <<>>
    BY <1>2, Pushed DEF Sound, Push
  <2> HIDE DEF ts
  <2>3. Safe(ts, c)
    BY <2>1, <2>2, SafeStep
  <2>4. QED
    BY <2>3 DEF ts
<1>9. ASSUME NEW c \in X, c.rounds >= m PROVE Safe(Push(Finally(<<>>), outer), c)
  <2> DEFINE ts == Push(Finally(<<>>), outer)
  <2>1. ASSUME NEW hs, NEW b, Leads(ts, c, hs, b) PROVE hs \in {Native!Out(outer)} /\ Safe(hs, b)
    <3>1. b \in NativeData /\ Quiet(c, b) /\ hs = Native!Out(outer)
      BY <1>2, <2>1, LeadsOut
    <3>2. b \in X /\ b.rounds >= m
      BY <1>9, <3>1 DEF Quiet, Settled
    <3>3. QED
      BY <1>5, <3>1, <3>2
  <2>2. Fine(c) /\ ts # <<>>
    BY <1>2, Pushed DEF Sound, Push
  <2> HIDE DEF ts
  <2>3. Safe(ts, c)
    BY <2>1, <2>2, SafeStep
  <2>4. QED
    BY <2>3 DEF ts
\* The finally clause itself.
<1>10. IsSequence(<<>>) /\ final \o <<>> = final /\ body \o <<>> = body
  BY Empty DEF Triple
<1>11. \A c \in Q : c.rounds >= m => Safe(Push(Trying(final, <<>>), outer), c)
  <2>1. \A c \in Q : c.rounds >= m => Safe(Push(Trying(final \o <<>>, <<>>), outer), c)
    BY <1>2, <1>8, <1>9, <1>10 DEF Triple, Trying
  <2>2. QED
    BY <1>10, <2>1
<1>12. \A c \in E : c.rounds >= m => Safe(Push(Finally(final), outer), c)
  <2>1. \A c \in E : c.rounds >= m => Safe(Push(Finally(final \o <<>>), outer), c)
    BY <1>2, <1>9, <1>10 DEF Triple, Finally
  <2>2. QED
    BY <1>10, <2>1
\* The end of the block.
<1>13. ASSUME NEW c \in Q, c.rounds >= m PROVE Safe(Push(Trying(<<>>, final), outer), c)
  <2> DEFINE ts == Push(Trying(<<>>, final), outer)
  <2>1. ASSUME NEW hs, NEW b, Leads(ts, c, hs, b)
        PROVE  hs \in {Push(Trying(final, <<>>), outer)} /\ Safe(hs, b)
    <3>1. b \in NativeData /\ Quiet(c, b) /\ hs = Push(Trying(final, <<>>), outer)
      BY <1>2, <2>1, LeadsFinal
    <3>2. b \in Q /\ b.rounds >= m
      BY <1>13, <3>1 DEF Quiet, Settled
    <3>3. QED
      BY <1>11, <3>1, <3>2
  <2>2. Fine(c) /\ ts # <<>>
    BY <1>2, Pushed DEF Sound, Push
  <2> HIDE DEF ts
  <2>3. Safe(ts, c)
    BY <2>1, <2>2, SafeStep
  <2>4. QED
    BY <2>3 DEF ts
<1>14. Safe(Push(Trying(body \o <<>>, final), outer), e)
  BY <1>2, <1>7, <1>10, <1>12, <1>13 DEF Triple, Trying
<1>15. QED
  BY <1>7, <1>10, <1>14

-----------------------------------------------------------------------------
(* The rules for loops and for a whole function. *)

\* The order on the naturals as the relation that the library is about.
LEMMA LessIs ==
  ASSUME NEW x \in Nat, NEW y \in Nat, x < y
  PROVE  <<x, y>> \in OpToRel(<, Nat)
BY SMT DEF OpToRel

\* A set of naturals has a least element.
LEMMA LeastOf ==
  ASSUME NEW T, T \subseteq Nat, T # {}
  PROVE  \E n \in T : \A m \in T : n <= m
<1>1. PICK u \in T : \A v \in T : ~ (<<v, u>> \in OpToRel(<, Nat))
  BY WFMin, NatLessThanWellFounded
<1>2. ASSUME NEW v \in T PROVE u <= v
  <2>1. v \in Nat /\ u \in Nat
    OBVIOUS
  <2>2. ~ (v < u)
    BY <2>1, <1>1, LessIs, Zenon
  <2>3. QED
    BY <2>1, <2>2
<1>3. QED
  BY <1>2

\* A loop: from a state of the invariant P from which a run meets a bad state, with as many
\* rounds as possible behind it, one more round would lead to a safe one.
LEMMA ManyRule ==
  ASSUME NEW body, NEW P, Sound(P), Settled(P), NEW E, Sound(E),
         Triple(body, P, P, E)
  PROVE  Triple(<<Native!Many(body)>>, P, P, E)
<1> DEFINE o == Native!Many(body)
<1> SUFFICES ASSUME NEW k, NEW final, NEW raising, NEW fs, NEW m,
                    IsSequence(k), IsSequence(fs), m \in Nat,
                    \A d \in P : d.rounds >= m => Safe(Push(Frame(k, final, raising), fs), d),
                    \A d \in E : d.rounds >= m => Safe(Push(Finally(final), fs), d)
             PROVE  \A d \in P : d.rounds >= m => Safe(Push(Frame(<<o>> \o k, final, raising), fs),
                                                       d)
  BY Singleton DEF Triple
<1> DEFINE ts == Push(Frame(<<o>> \o k, final, raising), fs)
           again == Push(Frame(body \o (<<o>> \o k), final, raising), fs)
           over == Push(Frame(k, final, raising), fs)
<1>1. o.do = "many" /\ o.body = body
  BY DEF Native!Many
<1> HIDE DEF o
<1>2. IsSequence(<<o>> \o k)
  BY Singleton, Concatenated
<1>3. ts # <<>>
  BY Pushed DEF Push
\* The last state that is not safe goes on to safe ones.
<1>4. ASSUME NEW d \in P, d.rounds >= m, NEW gs, NEW e, Leads(ts, d, gs, e),
             \A c \in P : c.rounds > d.rounds => Safe(ts, c)
      PROVE  gs \in {again, over} /\ Safe(gs, e)
  <2>1. ~ Fails(o, d, e) /\ ~ Done(o, d, e) /\ o.do # "try" /\ o.do # "either"
    BY <1>1 DEF Fails, Done, Takes
  <2>2. /\ e \in NativeData
        /\ \/ SameHeld(d, e) /\ d.rounds < MaxRounds /\ e.rounds = d.rounds + 1 /\ gs = again
           \/ Quiet(d, e) /\ gs = over
    BY <1>1, <1>4, <2>1, LeadsRunning
  <2>3. e \in P
    BY <2>2 DEF Quiet, Settled
  <2>4. CASE Quiet(d, e) /\ gs = over
    BY <1>4, <2>3, <2>4 DEF Quiet
  <2>5. CASE SameHeld(d, e) /\ e.rounds = d.rounds + 1 /\ gs = again
    <3>1. d.rounds \in Nat /\ e.rounds \in Nat
      BY <1>4, <2>2, NativeAssumption DEF Sound, NativeData
    <3>2. \A c \in P : c.rounds \in Nat
      BY NativeAssumption DEF Sound, NativeData
    <3>3. \A c \in P : c.rounds >= e.rounds => Safe(Push(Frame(<<o>> \o k, final, raising), fs), c)
      BY <1>4, <2>5, <3>1, <3>2
    <3>4. \A c \in E : c.rounds >= e.rounds => Safe(Push(Finally(final), fs), c)
      <4>1. \A c \in E : c.rounds \in Nat
        BY NativeAssumption DEF Sound, NativeData
      <4>2. QED
        BY <1>4, <2>5, <3>1, <4>1
    <3>5. \A c \in P : c.rounds >= e.rounds => Safe(again, c)
      BY <1>2, <3>1, <3>3, <3>4 DEF Triple
    <3>6. QED
      BY <2>3, <2>5, <3>1, <3>5
  <2>6. QED
    BY <2>2, <2>4, <2>5
<1> DEFINE T == {MaxRounds - d.rounds : d \in {c \in P : c.rounds >= m /\ ~ Safe(ts, c)}}
<1>5. T = {}
  <2>1. SUFFICES ASSUME T # {} PROVE FALSE
    OBVIOUS
  <2>2. T \subseteq Nat
    BY NativeAssumption DEF Sound, NativeData
  <2>3. PICK n \in T : \A i \in T : n <= i
    BY <2>1, <2>2, LeastOf
  <2>4. PICK d \in P : d.rounds >= m /\ ~ Safe(ts, d) /\ n = MaxRounds - d.rounds
    BY <2>3
  <2>5. ASSUME NEW c \in P, c.rounds > d.rounds PROVE Safe(ts, c)
    <3>1. c.rounds \in Nat /\ d.rounds \in Nat /\ MaxRounds \in Nat
      BY NativeAssumption DEF Sound, NativeData
    <3>2. c.rounds >= m
      BY <2>4, <2>5, <3>1
    <3>3. ~ (n <= MaxRounds - c.rounds)
      BY <2>4, <2>5, <3>1
    <3>4. QED
      BY <2>3, <3>2, <3>3
  <2>6. Fine(d)
    BY DEF Sound
  <2>7. \A gs, e : Leads(ts, d, gs, e) => gs \in {again, over} /\ Safe(gs, e)
    BY <1>4, <2>4, <2>5
  <2> HIDE DEF ts, again, over
  <2>8. Safe(ts, d)
    BY <1>3, <2>6, <2>7, SafeStep
  <2>9. QED
    BY <2>4, <2>8
<1>6. QED
  BY <1>5

\* A whole function: its call is safe if all that it ends in is given back.
LEMMA FunctionRule ==
  ASSUME NEW p, NEW P, Sound(P), Settled(P), NEW Q, Sound(Q), Settled(Q),
         NEW E, Sound(E), Settled(E), Triple(p, P, Q, E),
         \A d \in Q \cup E : GivenBack(d), NEW d \in P
  PROVE  Safe(<<Frame(p, <<>>, FALSE)>>, d)
<1>1. ASSUME NEW c \in Q \cup E PROVE Safe(<<>>, c)
  <2>1. Fine(c) /\ GivenBack(c)
    BY DEF Sound
  <2>2. \A gs, e : Leads(<<>>, c, gs, e) => gs \in {} /\ Safe(gs, e)
    BY DEF Leads
  <2>3. QED
    BY <2>1, <2>2, SafeStep
<1>2. IsSequence(<<>>) /\ p \o <<>> = p
  BY Empty DEF Triple
<1>3. ASSUME NEW c \in Q PROVE Safe(Push(Trying(<<>>, <<>>), <<>>), c)
  <2> DEFINE ts == Push(Trying(<<>>, <<>>), <<>>)
  <2>1. ASSUME NEW gs, NEW e, Leads(ts, c, gs, e) PROVE gs \in {<<>>} /\ Safe(gs, e)
    <3>1. e \in NativeData /\ Quiet(c, e) /\ gs = <<>>
      BY <1>2, <2>1, LeadsOutside
    <3>2. e \in Q
      BY <3>1 DEF Quiet, Settled
    <3>3. QED
      BY <1>1, <3>1, <3>2
  <2>2. Fine(c) /\ ts # <<>>
    BY <1>2, Pushed DEF Sound, Push
  <2> HIDE DEF ts
  <2>3. Safe(ts, c)
    BY <2>1, <2>2, SafeStep
  <2>4. QED
    BY <2>3 DEF ts
<1>4. ASSUME NEW c \in E PROVE Safe(Push(Finally(<<>>), <<>>), c)
  <2> DEFINE ts == Push(Finally(<<>>), <<>>)
  <2>1. ASSUME NEW gs, NEW e, Leads(ts, c, gs, e) PROVE gs \in {<<>>} /\ Safe(gs, e)
    <3>1. e \in NativeData /\ Quiet(c, e) /\ gs = Native!Out(<<>>)
      BY <1>2, <2>1, LeadsOut
    <3>2. e \in E
      BY <3>1 DEF Quiet, Settled
    <3>3. Native!Out(<<>>) = <<>>
      BY DEF Native!Out
    <3>4. QED
      BY <1>1, <3>1, <3>2, <3>3
  <2>2. Fine(c) /\ ts # <<>>
    BY <1>2, Pushed DEF Sound, Push
  <2> HIDE DEF ts
  <2>3. Safe(ts, c)
    BY <2>1, <2>2, SafeStep
  <2>4. QED
    BY <2>3 DEF ts
<1>5. d.rounds >= 0 /\ 0 \in Nat
  BY NativeAssumption DEF Sound, NativeData
<1>6. Safe(Push(Frame(p \o <<>>, <<>>, FALSE), <<>>), d)
  <2>1. \A c \in Q : c.rounds >= 0 => Safe(Push(Frame(<<>>, <<>>, FALSE), <<>>), c)
    BY <1>3 DEF Trying
  <2>2. \A c \in E : c.rounds >= 0 => Safe(Push(Finally(<<>>), <<>>), c)
    BY <1>4
  <2>3. QED
    BY <1>2, <1>5, <2>1, <2>2 DEF Triple
<1>7. Push(Frame(p, <<>>, FALSE), <<>>) = <<Frame(p, <<>>, FALSE)>>
  BY Singleton, Empty DEF Push
<1>8. QED
  BY <1>2, <1>6, <1>7

-----------------------------------------------------------------------------
(* What is held, and the calls. *)

\* The function f has at least must and at most may, and what it may have freed since it got
\* it last is in freed; a call has raised if x is "raised".
Holds(f, x, must, may, freed) ==
  {d \in NativeData : /\ Fine(d) /\ d.function = f /\ (x = "raised" => d.raised)
                /\ must \subseteq d.have /\ d.have \subseteq may /\ d.freed \subseteq freed}

\* A double free is a known one in f, after an exception if x is "raised".
Tolerant(f, x) == Native!FreedTwice(f, x = "raised")

\* These assertions fit the rules.
LEMMA HoldsSound ==
  \A f, x, m, y, z : Sound(Holds(f, x, m, y, z)) /\ Settled(Holds(f, x, m, y, z))
<1>1. ASSUME NEW f, NEW x, NEW m, NEW y, NEW z PROVE Sound(Holds(f, x, m, y, z))
  BY DEF Sound, Holds
<1>2. ASSUME NEW f, NEW x, NEW m, NEW y, NEW z PROVE Settled(Holds(f, x, m, y, z))
  <2>1. SUFFICES ASSUME NEW d \in Holds(f, x, m, y, z), NEW e \in NativeData, SameHeld(d, e)
                 PROVE  e \in Holds(f, x, m, y, z)
    BY DEF Settled
  <2>2. Fine(e)
    BY <2>1 DEF SameHeld, Holds, Fine, Native!FreedTwice
  <2>3. QED
    BY <2>1, <2>2 DEF SameHeld, Holds
<1>3. QED
  BY <1>1, <1>2

\* Less is held for certain, more perhaps.
LEMMA HoldsWeaker ==
  ASSUME NEW f, NEW x, NEW m, NEW y, NEW z, NEW xx, xx = "raised" => x = "raised", NEW mm,
         mm \subseteq m, NEW yy, y \subseteq yy,
         NEW zz, z \subseteq zz
  PROVE  Holds(f, x, m, y, z) \subseteq Holds(f, xx, mm, yy, zz)
BY DEF Holds

\* Where double frees are known, nothing that goes wrong is new.
LEMMA HoldsTolerant ==
  ASSUME NEW f, NEW x, NEW m, NEW y, NEW z, Tolerant(f, x), NEW d \in Holds(f, x, m, y, z),
         NEW e, e.function = d.function, d.raised => e.raised
  PROVE  Fine(e)
BY DEF Fine, Holds, Tolerant, Native!FreedTwice

\* A step after which nothing more is wrong leads to a good state.
LEMMA StillFine ==
  ASSUME NEW d, Fine(d), NEW e, e.function = d.function, d.raised => e.raised, e.wrong => d.wrong
  PROVE  Fine(e)
BY DEF Fine, Native!FreedTwice

\* What is done to the resources, and that nothing is wrong with it.
LEMMA HoldsAfter ==
  ASSUME NEW f, NEW x, NEW m, NEW y, NEW z, NEW d \in Holds(f, x, m, y, z), NEW e \in NativeData,
         e.function = d.function, d.raised => e.raised, e.wrong => d.wrong \/ Tolerant(f, x),
         NEW mm, mm \subseteq e.have, NEW yy, e.have \subseteq yy, NEW zz, e.freed \subseteq zz
  PROVE  e \in Holds(f, x, mm, yy, zz)
<1>1. Fine(e)
  BY HoldsTolerant, StillFine DEF Holds
<1>2. QED
  BY <1>1 DEF Holds

\* A call of which is known what it does to the resources.
LEMMA CallsRule ==
  ASSUME NEW o, o.do \in Simple, NEW f, NEW x, NEW m, NEW y, NEW z, NEW mm, NEW yy, NEW zz,
         \A d \in Holds(f, x, m, y, z), e \in NativeData :
           /\ Done(o, d, e) => /\ mm \subseteq e.have /\ e.have \subseteq yy
                               /\ e.freed \subseteq zz
                               /\ e.wrong => d.wrong \/ Tolerant(f, x)
           /\ Fails(o, d, e) /\ e.wrong => d.wrong \/ Tolerant(f, x),
         NEW me, me \subseteq m, NEW ye, y \subseteq ye, NEW ze, z \subseteq ze
  PROVE  Triple(<<o>>, Holds(f, x, m, y, z), Holds(f, x, mm, yy, zz),
                Holds(f, "raised", me, ye, ze))
<1>1. ASSUME NEW d \in Holds(f, x, m, y, z), NEW e \in NativeData, Done(o, d, e)
      PROVE  e \in Holds(f, x, mm, yy, zz)
  <2>1. e.function = d.function /\ (d.raised => e.raised)
    BY <1>1 DEF Done
  <2>2. /\ mm \subseteq e.have /\ e.have \subseteq yy /\ e.freed \subseteq zz
        /\ e.wrong => d.wrong \/ Tolerant(f, x)
    BY <1>1
  <2>3. QED
    BY <2>1, <2>2, HoldsAfter
<1>2. ASSUME NEW d \in Holds(f, x, m, y, z), NEW e \in NativeData, Fails(o, d, e)
      PROVE  e \in Holds(f, "raised", me, ye, ze)
  <2>1. e.function = d.function /\ e.raised /\ e.have = d.have /\ e.freed = d.freed
    BY <1>2 DEF Fails
  <2>2. Fine(e)
    <3>1. e.wrong => d.wrong \/ Tolerant(f, x)
      BY <1>2
    <3>2. CASE Tolerant(f, x)
      BY <2>1, <3>2, HoldsTolerant
    <3>3. CASE e.wrong => d.wrong
      BY <2>1, <3>3, StillFine DEF Holds
    <3>4. QED
      BY <3>1, <3>2, <3>3
  <2>3. QED
    BY <2>1, <2>2 DEF Holds
<1>3. QED
  BY <1>1, <1>2, HoldsSound, StepRule

\* A call that raises nothing.
LEMMA QuietCallsRule ==
  ASSUME NEW o, o.do \in Simple, NEW f, NEW x, NEW m, NEW y, NEW z, NEW mm, NEW yy, NEW zz,
         \A d \in Holds(f, x, m, y, z), e \in NativeData :
           /\ Done(o, d, e) => /\ mm \subseteq e.have /\ e.have \subseteq yy
                               /\ e.freed \subseteq zz
                               /\ e.wrong => d.wrong \/ Tolerant(f, x)
           /\ ~ Fails(o, d, e),
         NEW E
  PROVE  Triple(<<o>>, Holds(f, x, m, y, z), Holds(f, x, mm, yy, zz), E)
<1>1. ASSUME NEW d \in Holds(f, x, m, y, z), NEW e \in NativeData, Done(o, d, e)
      PROVE  e \in Holds(f, x, mm, yy, zz)
  <2>1. e.function = d.function /\ (d.raised => e.raised)
    BY <1>1 DEF Done
  <2>2. /\ mm \subseteq e.have /\ e.have \subseteq yy /\ e.freed \subseteq zz
        /\ e.wrong => d.wrong \/ Tolerant(f, x)
    BY <1>1
  <2>3. QED
    BY <2>1, <2>2, HoldsAfter
<1>2. QED
  BY <1>1, HoldsSound, StepRule

\* A call that is about no resource.
LEMMA CallRule ==
  ASSUME NEW f, NEW x, NEW m, NEW y, NEW z,
         NEW mm, mm \subseteq m, NEW yy, y \subseteq yy, NEW zz, z \subseteq zz,
         NEW me, me \subseteq m, NEW ye, y \subseteq ye, NEW ze, z \subseteq ze
  PROVE  Triple(<<Native!Call>>, Holds(f, x, m, y, z), Holds(f, x, mm, yy, zz),
                Holds(f, "raised", me, ye, ze))
<1> DEFINE o == Native!Call
<1>1. o.do = "call" /\ o.do \in Simple
  BY DEF Native!Call, Native!Step, Simple
<1> HIDE DEF o
<1>2. ASSUME NEW d \in Holds(f, x, m, y, z), NEW e \in NativeData
      PROVE  /\ Done(o, d, e) => /\ mm \subseteq e.have /\ e.have \subseteq yy
                                 /\ e.freed \subseteq zz
                                 /\ e.wrong => d.wrong \/ Tolerant(f, x)
             /\ Fails(o, d, e) /\ e.wrong => d.wrong \/ Tolerant(f, x)
  BY <1>1 DEF Holds, Done, Takes, Fails
<1>3. Triple(<<o>>, Holds(f, x, m, y, z), Holds(f, x, mm, yy, zz), Holds(f, "raised", me, ye, ze))
  BY <1>1, <1>2, CallsRule
<1>4. QED
  BY <1>3 DEF o

\* Getting what is not held yet.
LEMMA GetRule ==
  ASSUME NEW f, NEW x, NEW m, NEW y, NEW z, NEW r \in Native!Resources,
         r \notin y \/ Tolerant(f, x),
         NEW mm, mm \subseteq m \cup {r}, NEW yy, y \cup {r} \subseteq yy, NEW zz,
         z \ {r} \subseteq zz,
         NEW me, me \subseteq m, NEW ye, y \subseteq ye, NEW ze, z \subseteq ze
  PROVE  Triple(<<Native!Get(r)>>, Holds(f, x, m, y, z), Holds(f, x, mm, yy, zz),
                Holds(f, "raised", me, ye, ze))
<1> DEFINE o == Native!Get(r)
<1>1. o.do = "get" /\ o.do \in Simple /\ o.r = r
  BY DEF Native!Get, Native!Step, Simple
<1> HIDE DEF o
<1>2. ASSUME NEW d \in Holds(f, x, m, y, z), NEW e \in NativeData
      PROVE  /\ Done(o, d, e) => /\ mm \subseteq e.have /\ e.have \subseteq yy
                                 /\ e.freed \subseteq zz
                                 /\ e.wrong => d.wrong \/ Tolerant(f, x)
             /\ Fails(o, d, e) /\ e.wrong => d.wrong \/ Tolerant(f, x)
  BY <1>1 DEF Holds, Done, Takes, Fails
<1>3. Triple(<<o>>, Holds(f, x, m, y, z), Holds(f, x, mm, yy, zz), Holds(f, "raised", me, ye, ze))
  BY <1>1, <1>2, CallsRule
<1>4. QED
  BY <1>3 DEF o

\* Using what is held for certain.
LEMMA UseRule ==
  ASSUME NEW f, NEW x, NEW m, NEW y, NEW z, NEW r \in Native!Resources, r \in m \/ Tolerant(f, x),
         NEW mm, mm \subseteq m, NEW yy, y \subseteq yy, NEW zz, z \subseteq zz,
         NEW me, me \subseteq m, NEW ye, y \subseteq ye, NEW ze, z \subseteq ze
  PROVE  Triple(<<Native!Use(r)>>, Holds(f, x, m, y, z), Holds(f, x, mm, yy, zz),
                Holds(f, "raised", me, ye, ze))
<1> DEFINE o == Native!Use(r)
<1>1. o.do = "use" /\ o.do \in Simple /\ o.r = r
  BY DEF Native!Use, Native!Step, Simple
<1> HIDE DEF o
<1>2. ASSUME NEW d \in Holds(f, x, m, y, z), NEW e \in NativeData
      PROVE  /\ Done(o, d, e) => /\ mm \subseteq e.have /\ e.have \subseteq yy
                                 /\ e.freed \subseteq zz
                                 /\ e.wrong => d.wrong \/ Tolerant(f, x)
             /\ Fails(o, d, e) /\ e.wrong => d.wrong \/ Tolerant(f, x)
  BY <1>1 DEF Holds, Done, Takes, Fails
<1>3. Triple(<<o>>, Holds(f, x, m, y, z), Holds(f, x, mm, yy, zz), Holds(f, "raised", me, ye, ze))
  BY <1>1, <1>2, CallsRule
<1>4. QED
  BY <1>3 DEF o

\* Getting it, when the failure is another alternative.
LEMMA HaveRule ==
  ASSUME NEW f, NEW x, NEW m, NEW y, NEW z, NEW r \in Native!Resources,
         r \notin y \/ Tolerant(f, x),
         NEW mm, mm \subseteq m \cup {r}, NEW yy, y \cup {r} \subseteq yy, NEW zz,
         z \ {r} \subseteq zz,
         NEW E
  PROVE  Triple(<<Native!Have(r)>>, Holds(f, x, m, y, z), Holds(f, x, mm, yy, zz), E)
<1> DEFINE o == Native!Have(r)
<1>1. o.do = "have" /\ o.do \in Simple /\ o.r = r
  BY DEF Native!Have, Native!Step, Simple
<1> HIDE DEF o
<1>2. ASSUME NEW d \in Holds(f, x, m, y, z), NEW e \in NativeData, Done(o, d, e)
      PROVE  /\ mm \subseteq e.have /\ e.have \subseteq yy /\ e.freed \subseteq zz
             /\ e.wrong => d.wrong \/ Tolerant(f, x)
  BY <1>1, <1>2 DEF Holds, Done, Takes
<1>3. Triple(<<o>>, Holds(f, x, m, y, z), Holds(f, x, mm, yy, zz), E)
  BY <1>1, <1>2, QuietCallsRule DEF Fails
<1>4. QED
  BY <1>3 DEF o

\* Getting a handle that may be invalid.
LEMMA FindRule ==
  ASSUME NEW f, NEW x, NEW m, NEW y, NEW z, NEW r \in Native!Resources,
         r \notin y \/ Tolerant(f, x),
         NEW mm, mm \subseteq m \cup {r}, NEW yy, y \cup {r} \subseteq yy, NEW zz,
         z \ {r} \subseteq zz,
         NEW E
  PROVE  Triple(<<Native!Find(r)>>, Holds(f, x, m, y, z), Holds(f, x, mm, yy, zz), E)
<1> DEFINE o == Native!Find(r)
<1>1. o.do = "find" /\ o.do \in Simple /\ o.r = r
  BY DEF Native!Find, Native!Step, Simple
<1> HIDE DEF o
<1>2. ASSUME NEW d \in Holds(f, x, m, y, z), NEW e \in NativeData, Done(o, d, e)
      PROVE  /\ mm \subseteq e.have /\ e.have \subseteq yy /\ e.freed \subseteq zz
             /\ e.wrong => d.wrong \/ Tolerant(f, x)
  BY <1>1, <1>2 DEF Holds, Done, Takes
<1>3. Triple(<<o>>, Holds(f, x, m, y, z), Holds(f, x, mm, yy, zz), E)
  BY <1>1, <1>2, QuietCallsRule DEF Fails
<1>4. QED
  BY <1>3 DEF o

\* Freeing what is held for certain.
LEMMA FreeRule ==
  ASSUME NEW f, NEW x, NEW m, NEW y, NEW z, NEW r \in Native!Resources, r \in m \/ Tolerant(f, x),
         NEW mm, mm \subseteq m \ {r}, NEW yy, y \ {r} \subseteq yy, NEW zz,
         z \cup {r} \subseteq zz,
         NEW E
  PROVE  Triple(<<Native!Free(r)>>, Holds(f, x, m, y, z), Holds(f, x, mm, yy, zz), E)
<1> DEFINE o == Native!Free(r)
<1>1. o.do = "free" /\ o.do \in Simple /\ o.r = r
  BY DEF Native!Free, Native!Step, Simple
<1> HIDE DEF o
<1>2. ASSUME NEW d \in Holds(f, x, m, y, z), NEW e \in NativeData, Done(o, d, e)
      PROVE  /\ mm \subseteq e.have /\ e.have \subseteq yy /\ e.freed \subseteq zz
             /\ e.wrong => d.wrong \/ Tolerant(f, x)
  BY <1>1, <1>2 DEF Holds, Done, Takes
<1>3. Triple(<<o>>, Holds(f, x, m, y, z), Holds(f, x, mm, yy, zz), E)
  BY <1>1, <1>2, QuietCallsRule DEF Fails
<1>4. QED
  BY <1>3 DEF o

\* Freeing what is held perhaps: the pointer must not be one to freed memory.
LEMMA FreeIfRule ==
  ASSUME NEW f, NEW x, NEW m, NEW y, NEW z, NEW r \in Native!Resources,
         r \notin z \/ Tolerant(f, x),
         NEW mm, mm \subseteq m \ {r}, NEW yy, y \ {r} \subseteq yy, NEW zz,
         z \cup {r} \subseteq zz,
         NEW E
  PROVE  Triple(<<Native!FreeIf(r)>>, Holds(f, x, m, y, z), Holds(f, x, mm, yy, zz), E)
<1> DEFINE o == Native!FreeIf(r)
<1>1. o.do = "free if" /\ o.do \in Simple /\ o.r = r
  BY DEF Native!FreeIf, Native!Step, Simple
<1> HIDE DEF o
<1>2. ASSUME NEW d \in Holds(f, x, m, y, z), NEW e \in NativeData, Done(o, d, e)
      PROVE  /\ mm \subseteq e.have /\ e.have \subseteq yy /\ e.freed \subseteq zz
             /\ e.wrong => d.wrong \/ Tolerant(f, x)
  BY <1>1, <1>2 DEF Holds, Done, Takes
<1>3. Triple(<<o>>, Holds(f, x, m, y, z), Holds(f, x, mm, yy, zz), E)
  BY <1>1, <1>2, QuietCallsRule DEF Fails
<1>4. QED
  BY <1>3 DEF o

\* Forgetting a pointer to what is not held.
LEMMA NullRule ==
  ASSUME NEW f, NEW x, NEW m, NEW y, NEW z, NEW r \in Native!Resources,
         r \notin y \/ Tolerant(f, x),
         NEW mm, mm \subseteq m \ {r}, NEW yy, y \ {r} \subseteq yy, NEW zz, z \ {r} \subseteq zz,
         NEW E
  PROVE  Triple(<<Native!Null(r)>>, Holds(f, x, m, y, z), Holds(f, x, mm, yy, zz), E)
<1> DEFINE o == Native!Null(r)
<1>1. o.do = "null" /\ o.do \in Simple /\ o.r = r
  BY DEF Native!Null, Native!Step, Simple
<1> HIDE DEF o
<1>2. ASSUME NEW d \in Holds(f, x, m, y, z), NEW e \in NativeData, Done(o, d, e)
      PROVE  /\ mm \subseteq e.have /\ e.have \subseteq yy /\ e.freed \subseteq zz
             /\ e.wrong => d.wrong \/ Tolerant(f, x)
  BY <1>1, <1>2 DEF Holds, Done, Takes
<1>3. Triple(<<o>>, Holds(f, x, m, y, z), Holds(f, x, mm, yy, zz), E)
  BY <1>1, <1>2, QuietCallsRule DEF Fails
<1>4. QED
  BY <1>3 DEF o

\* A raise statement has nothing after it.
LEMMA RaiseRule ==
  ASSUME NEW f, NEW x, NEW m, NEW y, NEW z, NEW Q
  PROVE  Triple(<<Native!Step("raise", "none")>>, Holds(f, x, m, y, z), Q,
                Holds(f, "raised", m, y, z))
<1> DEFINE o == Native!Step("raise", "none")
<1>1. o.do = "raise" /\ o.do \in Simple
  BY DEF Native!Step, Simple
<1> HIDE DEF o
<1>2. ASSUME NEW d \in Holds(f, x, m, y, z), NEW e \in NativeData, Fails(o, d, e)
      PROVE  e \in Holds(f, "raised", m, y, z)
  <2>1. /\ e.function = d.function /\ e.raised /\ e.have = d.have /\ e.freed = d.freed
        /\ e.wrong => d.wrong
    BY <1>1, <1>2 DEF Fails
  <2>2. Fine(e)
    BY <2>1, StillFine DEF Holds
  <2>3. QED
    BY <2>1, <2>2 DEF Holds
<1>3. ASSUME NEW d \in Holds(f, x, m, y, z), NEW e \in NativeData PROVE ~ Done(o, d, e)
  BY <1>1 DEF Done, Takes
<1>4. Triple(<<o>>, Holds(f, x, m, y, z), Q, Holds(f, "raised", m, y, z))
  BY <1>1, <1>2, <1>3, HoldsSound, StepRule
<1>5. QED
  BY <1>4 DEF o

-----------------------------------------------------------------------------
(* Sequences of calls. *)

\* Sequences of two to six calls, as the functions write them.
LEMMA TwoSteps ==
  ASSUME NEW a, NEW b, NEW P0, NEW P1, NEW P2, NEW E,
         Triple(<<a>>, P0, P1, E), Triple(<<b>>, P1, P2, E)
  PROVE  Triple(<<a, b>>, P0, P2, E)
<1> DEFINE S == {a, b}
           s == <<a>> \o <<b>>
           t == <<a, b>>
<1>1. <<a>> \in Seq(S) /\ <<b>> \in Seq(S) /\ t \in Seq(S) /\ Len(t) = 2
  OBVIOUS
<1>2. s \in Seq(S) /\ Len(s) = 2 /\ s[1] = a /\ s[2] = b
  BY <1>1
<1>3. \A i \in 1 .. 2 : s[i] = t[i]
  BY <1>2
<1>4. s = t
  <2> HIDE DEF s, t
  <2>1. QED
    BY <1>1, <1>2, <1>3, SeqEqual
<1>5. Triple(<<a>> \o <<b>>, P0, P2, E)
  BY SequenceRule
<1>7. QED
  BY <1>4, <1>5

\* Three.
LEMMA ThreeSteps ==
  ASSUME NEW a, NEW b, NEW c, NEW P0, NEW P1, NEW P2, NEW P3, NEW E,
         Triple(<<a>>, P0, P1, E), Triple(<<b>>, P1, P2, E), Triple(<<c>>, P2, P3, E)
  PROVE  Triple(<<a, b, c>>, P0, P3, E)
<1> DEFINE S == {a, b, c}
           s == <<a>> \o <<b, c>>
           t == <<a, b, c>>
<1>1. <<a>> \in Seq(S) /\ <<b, c>> \in Seq(S) /\ t \in Seq(S) /\ Len(t) = 3
  OBVIOUS
<1>2. s \in Seq(S) /\ Len(s) = 3 /\ s[1] = a /\ s[2] = b /\ s[3] = c
  BY <1>1
<1>3. \A i \in 1 .. 3 : s[i] = t[i]
  BY <1>2
<1>4. s = t
  <2> HIDE DEF s, t
  <2>1. QED
    BY <1>1, <1>2, <1>3, SeqEqual
<1>5. Triple(<<b, c>>, P1, P3, E)
  BY TwoSteps
<1>6. Triple(s, P0, P3, E)
  BY <1>5, SequenceRule
<1>7. QED
  BY <1>4, <1>6

\* Four.
LEMMA FourSteps ==
  ASSUME NEW a, NEW b, NEW c, NEW d, NEW P0, NEW P1, NEW P2, NEW P3, NEW P4, NEW E,
         Triple(<<a>>, P0, P1, E), Triple(<<b>>, P1, P2, E), Triple(<<c>>, P2, P3, E),
         Triple(<<d>>, P3, P4, E)
  PROVE  Triple(<<a, b, c, d>>, P0, P4, E)
<1> DEFINE S == {a, b, c, d}
           s == <<a>> \o <<b, c, d>>
           t == <<a, b, c, d>>
<1>1. <<a>> \in Seq(S) /\ <<b, c, d>> \in Seq(S) /\ t \in Seq(S) /\ Len(t) = 4
  OBVIOUS
<1>2. s \in Seq(S) /\ Len(s) = 4 /\ s[1] = a /\ s[2] = b /\ s[3] = c /\ s[4] = d
  BY <1>1
<1>3. \A i \in 1 .. 4 : s[i] = t[i]
  BY <1>2
<1>4. s = t
  <2> HIDE DEF s, t
  <2>1. QED
    BY <1>1, <1>2, <1>3, SeqEqual
<1>5. Triple(<<b, c, d>>, P1, P4, E)
  BY ThreeSteps
<1>6. Triple(s, P0, P4, E)
  BY <1>5, SequenceRule
<1>7. QED
  BY <1>4, <1>6

\* Five.
LEMMA FiveSteps ==
  ASSUME NEW a, NEW b, NEW c, NEW d, NEW e, NEW P0, NEW P1, NEW P2, NEW P3, NEW P4, NEW P5, NEW E,
         Triple(<<a>>, P0, P1, E), Triple(<<b>>, P1, P2, E), Triple(<<c>>, P2, P3, E),
         Triple(<<d>>, P3, P4, E), Triple(<<e>>, P4, P5, E)
  PROVE  Triple(<<a, b, c, d, e>>, P0, P5, E)
<1> DEFINE S == {a, b, c, d, e}
           s == <<a>> \o <<b, c, d, e>>
           t == <<a, b, c, d, e>>
<1>1. <<a>> \in Seq(S) /\ <<b, c, d, e>> \in Seq(S) /\ t \in Seq(S) /\ Len(t) = 5
  OBVIOUS
<1>2. s \in Seq(S) /\ Len(s) = 5 /\ s[1] = a /\ s[2] = b /\ s[3] = c /\ s[4] = d /\ s[5] = e
  BY <1>1
<1>3. \A i \in 1 .. 5 : s[i] = t[i]
  BY <1>2
<1>4. s = t
  <2> HIDE DEF s, t
  <2>1. QED
    BY <1>1, <1>2, <1>3, SeqEqual
<1>5. Triple(<<b, c, d, e>>, P1, P5, E)
  BY FourSteps
<1>6. Triple(s, P0, P5, E)
  BY <1>5, SequenceRule
<1>7. QED
  BY <1>4, <1>6

\* Six.
LEMMA SixSteps ==
  ASSUME NEW a, NEW b, NEW c, NEW d, NEW e, NEW f, NEW P0, NEW P1, NEW P2, NEW P3, NEW P4, NEW P5,
         NEW P6, NEW E,
         Triple(<<a>>, P0, P1, E), Triple(<<b>>, P1, P2, E), Triple(<<c>>, P2, P3, E),
         Triple(<<d>>, P3, P4, E), Triple(<<e>>, P4, P5, E), Triple(<<f>>, P5, P6, E)
  PROVE  Triple(<<a, b, c, d, e, f>>, P0, P6, E)
<1> DEFINE S == {a, b, c, d, e, f}
           s == <<a>> \o <<b, c, d, e, f>>
           t == <<a, b, c, d, e, f>>
<1>1. <<a>> \in Seq(S) /\ <<b, c, d, e, f>> \in Seq(S) /\ t \in Seq(S) /\ Len(t) = 6
  OBVIOUS
<1>2. s \in Seq(S) /\ Len(s) = 6 /\ s[1] = a /\ s[2] = b /\ s[3] = c /\ s[4] = d /\ s[5] = e
      /\ s[6] = f
  BY <1>1
<1>3. \A i \in 1 .. 6 : s[i] = t[i]
  BY <1>2
<1>4. s = t
  <2> HIDE DEF s, t
  <2>1. QED
    BY <1>1, <1>2, <1>3, SeqEqual
<1>5. Triple(<<b, c, d, e, f>>, P1, P6, E)
  BY FiveSteps
<1>6. Triple(s, P0, P6, E)
  BY <1>5, SequenceRule
<1>7. QED
  BY <1>4, <1>6

\* What the functions name are resources.
LEMMA KnownResources ==
  /\ "thumbprint" \in Native!Resources /\ "key container" \in Native!Resources
     /\ "provider" \in Native!Resources
  /\ "key" \in Native!Resources /\ "name" \in Native!Resources /\ "context" \in Native!Resources
  /\ "store" \in Native!Resources /\ "pfx store" \in Native!Resources
     /\ "encoded" \in Native!Resources
  /\ "stored certificate" \in Native!Resources /\ "token" \in Native!Resources
     /\ "profile" \in Native!Resources
  /\ "process" \in Native!Resources /\ "thread" \in Native!Resources
     /\ "manager" \in Native!Resources
  /\ "service" \in Native!Resources /\ "heap" \in Native!Resources /\ "disks" \in Native!Resources
  /\ "detail" \in Native!Resources /\ "disk" \in Native!Resources /\ "volumes" \in Native!Resources
  /\ "volume name" \in Native!Resources /\ "extents" \in Native!Resources
BY DEF Native!Resources

\* An alternative without a call.
LEMMA NothingRule ==
  ASSUME NEW f, NEW x, NEW m, NEW y, NEW z, NEW mm, mm \subseteq m, NEW yy, y \subseteq yy,
         NEW zz, z \subseteq zz, NEW E
  PROVE  Triple(<<>>, Holds(f, x, m, y, z), Holds(f, x, mm, yy, zz), E)
BY HoldsWeaker, SkipRule

\* Two in a finally clause.
LEMMA FreeIfTwo ==
  ASSUME NEW f, NEW x, NEW m, NEW y, NEW z, NEW a \in Native!Resources, NEW b \in Native!Resources,
         a # b,
         (a \notin z /\ b \notin z) \/ Tolerant(f, x),
         NEW mm, mm \subseteq m \ {a, b}, NEW yy, y \ {a, b} \subseteq yy,
         NEW zz, z \cup {a, b} \subseteq zz, NEW E
  PROVE  Triple(<<Native!FreeIf(a), Native!FreeIf(b)>>, Holds(f, x, m, y, z),
                Holds(f, x, mm, yy, zz), E)
<1> DEFINE Q == Holds(f, x, m \ {a}, y \ {a}, z \cup {a})
<1>1. Triple(<<Native!FreeIf(a)>>, Holds(f, x, m, y, z), Q, E)
  BY FreeIfRule, KnownResources
<1>2. Triple(<<Native!FreeIf(b)>>, Q, Holds(f, x, mm, yy, zz), E)
  <2>1. /\ b \notin z \cup {a} \/ Tolerant(f, x)
        /\ mm \subseteq (m \ {a}) \ {b} /\ (y \ {a}) \ {b} \subseteq yy
           /\ (z \cup {a}) \cup {b} \subseteq zz
    OBVIOUS
  <2>2. QED
    BY <2>1, FreeIfRule, KnownResources
<1>3. QED
  BY <1>1, <1>2, TwoSteps

\* Three in a finally clause.
LEMMA FreeIfThree ==
  ASSUME NEW f, NEW x, NEW m, NEW y, NEW z, NEW a \in Native!Resources, NEW b \in Native!Resources,
         NEW c \in Native!Resources, a # b, a # c, b # c,
         a \notin z, b \notin z, c \notin z,
         NEW mm, mm \subseteq m \ {a, b, c}, NEW yy, y \ {a, b, c} \subseteq yy,
         NEW zz, z \cup {a, b, c} \subseteq zz, NEW E
  PROVE  Triple(<<Native!FreeIf(a), Native!FreeIf(b), Native!FreeIf(c)>>, Holds(f, x, m, y, z),
                Holds(f, x, mm, yy, zz), E)
<1> DEFINE Q == Holds(f, x, m \ {a}, y \ {a}, z \cup {a})
           R == Holds(f, x, m \ {a, b}, y \ {a, b}, z \cup {a, b})
<1>1. Triple(<<Native!FreeIf(a)>>, Holds(f, x, m, y, z), Q, E)
  BY FreeIfRule, KnownResources
<1>2. Triple(<<Native!FreeIf(b)>>, Q, R, E)
  <2>1. b \notin z \cup {a} /\ m \ {a, b} \subseteq (m \ {a}) \ {b}
        /\ (y \ {a}) \ {b} \subseteq y \ {a, b}
        /\ (z \cup {a}) \cup {b} \subseteq z \cup {a, b}
    OBVIOUS
  <2>2. QED
    BY <2>1, FreeIfRule, KnownResources
<1>3. Triple(<<Native!FreeIf(c)>>, R, Holds(f, x, mm, yy, zz), E)
  <2>1. c \notin z \cup {a, b} /\ mm \subseteq (m \ {a, b}) \ {c} /\ (y \ {a, b}) \ {c} \subseteq yy
        /\ (z \cup {a, b}) \cup {c} \subseteq zz
    OBVIOUS
  <2>2. QED
    BY <2>1, FreeIfRule, KnownResources
<1>4. QED
  BY <1>1, <1>2, <1>3, ThreeSteps

\* import_pfx_certificate() leaves nothing.
LEMMA ImportPfxCertificateFrees ==
  ASSUME NEW f
  PROVE  LET all == {"pfx store", "context", "store"} IN
         Triple(Native!ImportPfxCertificate, Holds(f, "any", {}, {}, {}),
                Holds(f, "any", {}, {}, all), Holds(f, "raised", {}, {}, all))
<1> DEFINE all == {"pfx store", "context", "store"}
           S(s) == Holds(f, "any", s, s, {})
           E == Holds(f, "raised", {}, all, {})
<1>1. Triple(<<Native!Get("pfx store")>>, S({}), S({"pfx store"}), E)
  BY GetRule, KnownResources
<1>2. Triple(<<Native!Get("context")>>, S({"pfx store"}), S({"pfx store", "context"}), E)
  BY GetRule, KnownResources
<1>3. Triple(<<Native!Get("store")>>, S({"pfx store", "context"}), S(all), E)
  BY GetRule, KnownResources
<1>4. Triple(<<Native!Use("context")>>, S(all), S(all), E)
  BY UseRule, KnownResources
<1>5. Triple(<<Native!Get("pfx store"), Native!Get("context"), Native!Get("store"),
               Native!Use("context")>>, S({}), S(all), E)
  BY <1>1, <1>2, <1>3, <1>4, FourSteps
<1> DEFINE final == <<Native!FreeIf("pfx store"), Native!FreeIf("context"), Native!FreeIf("store")>>
           R == Holds(f, "any", {}, {}, all)
           X == Holds(f, "raised", {}, {}, all)
<1>6. Triple(final, S(all), R, X) /\ Triple(final, E, X, X)
  BY FreeIfThree, KnownResources
<1>7. final # <<>>
  OBVIOUS
<1>8. QED
  BY <1>5, <1>6, <1>7, BlockRule, HoldsSound DEF Native!ImportPfxCertificate

\* Ten calls, as create_self_signed_cert() has them.
LEMMA TenSteps ==
  ASSUME NEW a, NEW b, NEW c, NEW d, NEW e, NEW g, NEW h, NEW i, NEW j, NEW k,
         NEW P, NEW Q, NEW R, NEW E,
         Triple(<<a, b, c, d, e>>, P, Q, E), Triple(<<g, h, i, j, k>>, Q, R, E)
  PROVE  Triple(<<a, b, c, d, e, g, h, i, j, k>>, P, R, E)
<1> DEFINE S == {a, b, c, d, e, g, h, i, j, k}
           s == <<a, b, c, d, e>> \o <<g, h, i, j, k>>
           t == <<a, b, c, d, e, g, h, i, j, k>>
<1>1. <<a, b, c, d, e>> \in Seq(S) /\ <<g, h, i, j, k>> \in Seq(S) /\ t \in Seq(S) /\ Len(t) = 10
  OBVIOUS
<1>2. /\ s \in Seq(S) /\ Len(s) = 10 /\ s[1] = a /\ s[2] = b /\ s[3] = c /\ s[4] = d /\ s[5] = e
      /\ s[6] = g /\ s[7] = h /\ s[8] = i /\ s[9] = j /\ s[10] = k
  BY <1>1
<1>3. \A n \in 1 .. 10 : s[n] = t[n]
  BY <1>2
<1>4. s = t
  <2> HIDE DEF s, t, S
  <2>1. QED
    BY <1>1, <1>2, <1>3, SeqEqual
<1>5. Triple(s, P, R, E)
  BY SequenceRule
<1>6. QED
  BY <1>4, <1>5

\* x509.py

\* The thumbprint's memory is freed, in whatever function it is computed.
LEMMA ThumbprintFrees ==
  ASSUME NEW f, NEW x, NEW m, NEW y, NEW z,
         "context" \in m, "thumbprint" \notin m, "thumbprint" \notin y, "thumbprint" \notin z
  PROVE  LET zz == z \cup {"thumbprint"} IN
         Triple(Native!Thumbprint, Holds(f, x, m, y, z), Holds(f, x, m, y, zz),
                Holds(f, "raised", m, y, zz))
<1> DEFINE t == {"thumbprint"}
           P == Holds(f, x, m, y, z)
           Q == Holds(f, x, m \cup t, y \cup t, z)
           E == Holds(f, "raised", m, y \cup t, z)
           R == Holds(f, x, m, y, z \cup t)
           X == Holds(f, "raised", m, y, z \cup t)
<1>1. Triple(<<Native!Use("context")>>, P, P, E)
  BY UseRule, KnownResources
<1>2. Triple(<<Native!Get("thumbprint")>>, P, Q, E)
  BY GetRule, KnownResources
<1>3. Triple(<<Native!Use("context")>>, Q, Q, E)
  BY UseRule, KnownResources
<1>4. Triple(<<Native!Use("context"), Native!Get("thumbprint"), Native!Use("context")>>, P, Q, E)
  BY <1>1, <1>2, <1>3, ThreeSteps
<1>5. "thumbprint" \in Native!Resources
  BY KnownResources
<1>6. Triple(<<Native!FreeIf("thumbprint")>>, Q, R, X)
  BY <1>5, FreeIfRule
<1>7. Triple(<<Native!FreeIf("thumbprint")>>, E, X, X)
  BY <1>5, FreeIfRule
<1>8. <<Native!FreeIf("thumbprint")>> # <<>>
  OBVIOUS
<1>9. QED
  BY <1>4, <1>6, <1>7, <1>8, BlockRule, HoldsSound DEF Native!Thumbprint

\* The handles of a new key are freed; its container stays.
LEMMA GenerateKeyFrees ==
  ASSUME NEW f
  PROVE  LET kept == {"key container"}
             all == {"key", "provider"} IN
         Triple(Native!GenerateKey, Holds(f, "any", {}, {}, {}), Holds(f, "any", {}, kept, all),
                Holds(f, "raised", {}, kept, all))
<1> DEFINE kept == {"key container"}
           all == {"key", "provider"}
           P == Holds(f, "any", {}, {}, {})
           K == Holds(f, "any", {}, kept, {})
           L == Holds(f, "any", {}, kept \cup {"provider"}, {})
           Q == Holds(f, "any", {}, kept \cup all, {})
           E == Holds(f, "raised", {}, kept \cup all, {})
           R == Holds(f, "any", {}, kept, all)
           X == Holds(f, "raised", {}, kept, all)
<1>1. Triple(<<Native!Get("provider")>>, P, L, E)
  BY GetRule, KnownResources
<1>2. Triple(<<Native!Get("key container")>>, P, K, E)
  BY GetRule, KnownResources
<1>3. Triple(<<Native!Get("provider")>>, K, L, E)
  BY GetRule, KnownResources
<1>4. Triple(<<Native!Get("key container"), Native!Get("provider")>>, P, L, E)
  BY <1>2, <1>3, TwoSteps
<1>5. Triple(<<Native!Either(<<Native!Get("provider")>>,
                             <<Native!Get("key container"), Native!Get("provider")>>)>>, P, L, E)
  BY <1>1, <1>4, EitherRule, HoldsSound
<1>6. Triple(<<Native!Get("key")>>, L, Q, E)
  BY GetRule, KnownResources
<1> DEFINE body == <<Native!Either(<<Native!Get("provider")>>,
                                   <<Native!Get("key container"), Native!Get("provider")>>),
                     Native!Get("key")>>
<1>7. Triple(body, P, Q, E)
  BY <1>5, <1>6, TwoSteps
<1> DEFINE final == <<Native!FreeIf("key"), Native!FreeIf("provider")>>
<1>8. Triple(final, Q, R, X) /\ Triple(final, E, X, X)
  BY FreeIfTwo, KnownResources
<1>9. final # <<>>
  OBVIOUS
<1>10. QED
  BY <1>7, <1>8, <1>9, BlockRule, HoldsSound DEF Native!GenerateKey

\* A new certificate stays in the store on success; an exception may leave it there as well.
LEMMA CreateSelfSignedCertFrees ==
  ASSUME NEW f
  PROVE  LET key == {"key container"}
             cert == {"stored certificate"}
             all == {"key", "provider", "store", "context", "name", "thumbprint"} IN
         Triple(Native!CreateSelfSignedCert, Holds(f, "any", {}, {}, {}),
                Holds(f, "any", cert, key \cup cert, all),
                Holds(f, "raised", {}, key \cup cert, all))
<1> DEFINE key == {"key container"}
           cert == {"stored certificate"}
           before == {"key", "provider"}
           all == {"key", "provider", "store", "context", "name", "thumbprint"}
           S(s) == Holds(f, "any", s, key \cup s, before)
           E == Holds(f, "raised", {}, key \cup cert \cup {"name", "context", "store"},
                      before \cup {"thumbprint"})
           full == cert \cup {"name", "context", "store"}
           Q == Holds(f, "any", full, key \cup full, before \cup {"thumbprint"})
           R == Holds(f, "any", cert, key \cup cert, all)
           X == Holds(f, "raised", {}, key \cup cert, all)
<1>1. Triple(Native!GenerateKey, Holds(f, "any", {}, {}, {}), S({}), X)
  <2>1. Triple(Native!GenerateKey, Holds(f, "any", {}, {}, {}), Holds(f, "any", {}, key, before),
               Holds(f, "raised", {}, key, before))
    BY GenerateKeyFrees
  <2>2. Holds(f, "any", {}, key, before) \subseteq S({})
    BY HoldsWeaker
  <2>3. Holds(f, "raised", {}, key, before) \subseteq X
    <3>1. key \subseteq key \cup cert /\ before \subseteq all
      OBVIOUS
    <3> HIDE DEF key, cert, before, all
    <3>2. QED
      BY <3>1, HoldsWeaker
  <2>4. QED
    BY <2>1, <2>2, <2>3, WeakenRule
<1>2. Triple(<<Native!Call>>, S({}), S({}), E)
  BY CallRule
<1>3. Triple(<<Native!Get("name")>>, S({}), S({"name"}), E)
  BY GetRule, KnownResources
<1>4. Triple(<<Native!Use("name")>>, S({"name"}), S({"name"}), E)
  BY UseRule, KnownResources
<1>5. Triple(<<Native!Call>>, S({"name"}), S({"name"}), E)
  BY CallRule
<1>6. Triple(<<Native!Call, Native!Get("name"), Native!Use("name"), Native!Call, Native!Call>>,
             S({}), S({"name"}), E)
  BY <1>2, <1>3, <1>4, <1>5, FiveSteps
<1>7. Triple(<<Native!Get("context")>>, S({"name"}), S({"name", "context"}), E)
  BY GetRule, KnownResources
<1>8. Triple(<<Native!Use("context")>>, S({"name", "context"}), S({"name", "context"}), E)
  BY UseRule, KnownResources
<1>9. Triple(<<Native!Get("store")>>, S({"name", "context"}), S({"name", "context", "store"}), E)
  BY GetRule, KnownResources
<1>10. Triple(<<Native!Use("store")>>, S({"name", "context", "store"}),
              S({"name", "context", "store"}), E)
  BY UseRule, KnownResources
<1>11. Triple(<<Native!Get("stored certificate")>>, S({"name", "context", "store"}), S(full), E)
  BY GetRule, KnownResources
<1>12. Triple(<<Native!Get("context"), Native!Use("context"), Native!Get("store"),
                Native!Use("store"), Native!Get("stored certificate")>>,
              S({"name"}), S(full), E)
  BY <1>7, <1>8, <1>9, <1>10, <1>11, FiveSteps
<1> DEFINE calls == <<Native!Call, Native!Get("name"), Native!Use("name"), Native!Call,
                      Native!Call, Native!Get("context"), Native!Use("context"),
                      Native!Get("store"), Native!Use("store"), Native!Get("stored certificate")>>
<1>13. Triple(calls, S({}), S(full), E)
  BY <1>6, <1>12, TenSteps
<1>14. Triple(Native!Thumbprint, S(full), Q, E)
  <2>1. Triple(Native!Thumbprint, S(full), Q,
               Holds(f, "raised", full, key \cup full, before \cup {"thumbprint"}))
    BY ThumbprintFrees
  <2>2. Holds(f, "raised", full, key \cup full, before \cup {"thumbprint"}) \subseteq E
    <3>1. key \cup full \subseteq key \cup cert \cup {"name", "context", "store"}
      OBVIOUS
    <3> HIDE DEF key, cert, before, full
    <3>2. QED
      BY <3>1, HoldsWeaker
  <2>3. QED
    BY <2>1, <2>2, WeakenRule
<1>15. Triple(<<Native!Use("context")>>, Q, Q, E)
  BY UseRule, KnownResources
<1>16. Triple(Native!CertStr, Q, Q, E)
  BY <1>15, TwoSteps DEF Native!CertStr
<1> HIDE DEF calls
<1>17. Triple(calls \o Native!Thumbprint \o Native!CertStr, S({}), Q, E)
  BY <1>13, <1>14, <1>16, SequenceRule
<1> DEFINE final == <<Native!FreeIf("store"), Native!FreeIf("context"), Native!FreeIf("name")>>
<1>18. Triple(final, Q, R, X) /\ Triple(final, E, X, X)
  BY FreeIfThree, KnownResources
<1>19. final # <<>>
  OBVIOUS
<1>20. Triple(<<Native!Block(calls \o Native!Thumbprint \o Native!CertStr, final)>>, S({}), R, X)
  BY <1>17, <1>18, <1>19, BlockRule, HoldsSound
<1>21. QED
  BY <1>1, <1>20, SequenceRule DEF Native!CreateSelfSignedCert, calls

\* The handle of the store is freed, the context is for the caller.
LEMMA FindCertificateFrees ==
  ASSUME NEW f, NEW x, NEW m, NEW y, NEW z,
         Tolerant(f, x) \/ ({"store", "context"} \cap (y \cup z) = {}), "store" \notin m,
         "store" \notin y
  PROVE  LET zz == z \cup {"store"} IN
         Triple(Native!FindCertificate, Holds(f, x, m, y, z),
                Holds(f, x, m \cup {"context"}, y \cup {"context"},
                      (z \cup {"store"}) \ {"context"}),
                Holds(f, "raised", m, y \cup {"context"}, z \cup {"store"}))
<1> DEFINE P == Holds(f, x, m, y, z)
           S == Holds(f, x, m \cup {"store"}, y \cup {"store"}, z \ {"store"})
           Q == Holds(f, x, m \cup {"store", "context"}, y \cup {"store", "context"},
                      z \ {"store", "context"})
           E == Holds(f, "raised", m, y \cup {"store", "context"}, z)
           R == Holds(f, x, m \cup {"context"}, y \cup {"context"},
                      (z \cup {"store"}) \ {"context"})
           X == Holds(f, "raised", m, y \cup {"context"}, z \cup {"store"})
<1>1. Triple(<<Native!Get("store")>>, P, S, E)
  BY GetRule, KnownResources
<1>2. Triple(<<Native!Get("context")>>, S, Q, E)
  BY GetRule, KnownResources
<1>3. Triple(<<Native!Get("store"), Native!Get("context")>>, P, Q, E)
  BY <1>1, <1>2, TwoSteps
<1>4. Tolerant(f, x) => Tolerant(f, "raised")
  BY DEF Tolerant, Native!FreedTwice
<1>5. Triple(<<Native!FreeIf("store")>>, Q, R, X)
  BY FreeIfRule, KnownResources
<1>6. Triple(<<Native!FreeIf("store")>>, E, X, X)
  BY <1>4, FreeIfRule, KnownResources
<1>7. <<Native!FreeIf("store")>> # <<>>
  OBVIOUS
<1>8. QED
  BY <1>3, <1>5, <1>6, <1>7, BlockRule, HoldsSound DEF Native!FindCertificate

\* WeakenRule for these assertions.
LEMMA WeakenHolds ==
  ASSUME NEW p, NEW f, NEW x, NEW m, NEW y, NEW z, NEW m1, NEW y1, NEW z1, NEW m2, NEW y2, NEW z2,
         NEW m3, NEW y3, NEW z3,
         Triple(p, Holds(f, x, m1, y1, z1), Holds(f, x, m2, y2, z2),
                Holds(f, "raised", m3, y3, z3)),
         m1 \subseteq m, y \subseteq y1, z \subseteq z1,
         NEW mm, NEW yy, NEW zz, mm \subseteq m2, y2 \subseteq yy, z2 \subseteq zz,
         NEW me, NEW ye, NEW ze, me \subseteq m3, y3 \subseteq ye, z3 \subseteq ze
  PROVE  Triple(p, Holds(f, x, m, y, z), Holds(f, x, mm, yy, zz), Holds(f, "raised", me, ye, ze))
<1>1. Holds(f, x, m, y, z) \subseteq Holds(f, x, m1, y1, z1)
  BY HoldsWeaker
<1>2. Holds(f, x, m2, y2, z2) \subseteq Holds(f, x, mm, yy, zz)
  BY HoldsWeaker
<1>3. Holds(f, "raised", m3, y3, z3) \subseteq Holds(f, "raised", me, ye, ze)
  BY HoldsWeaker
<1>4. QED
  BY <1>1, <1>2, <1>3, WeakenRule

\* decode_pkcs7_base64_blob() gives back what it got, inside whatever calls it.
LEMMA DecodePkcs7Frees ==
  ASSUME NEW f, NEW x, NEW m, NEW y, NEW z,
         {"store", "context", "pfx store"} \cap (m \cup y) = {},
         Tolerant(f, x) \/ {"store", "context", "pfx store"} \cap z = {}
  PROVE  LET zz == z \cup {"store", "context", "pfx store"} IN
         Triple(Native!DecodePkcs7, Holds(f, x, m, y, z), Holds(f, x, m, y, zz),
                Holds(f, "raised", m, y, zz))
<1> DEFINE zz == z \cup {"store", "context", "pfx store"}
           both == {"pfx store", "context"}
           P == Holds(f, x, m, y, z)
           S == Holds(f, x, m \cup {"pfx store"}, y \cup {"pfx store"}, z \ {"pfx store"})
           Q == Holds(f, x, m \cup both, y \cup both, (z \cup {"store"}) \ both)
           E == Holds(f, "raised", m, y \cup both, z \cup {"store"})
           R == Holds(f, x, m, y, zz)
           X == Holds(f, "raised", m, y, zz)
<1>0. Tolerant(f, x) => Tolerant(f, "raised")
  BY DEF Tolerant, Native!FreedTwice
<1>1. Triple(<<Native!Call>>, P, P, E)
  BY CallRule
<1>2. Triple(<<Native!Get("pfx store")>>, P, S, E)
  BY GetRule, KnownResources
<1>3. Triple(<<Native!Call, Native!Call, Native!Get("pfx store")>>, P, S, E)
  BY <1>1, <1>2, ThreeSteps
<1>4. Triple(Native!FindCertificate, S, Q, E)
  <2> DEFINE m1 == m \cup {"pfx store"}
             y1 == y \cup {"pfx store"}
             z1 == z \ {"pfx store"}
             m2 == m1 \cup {"context"}
             y2 == y1 \cup {"context"}
             z2 == (z1 \cup {"store"}) \ {"context"}
             z3 == z1 \cup {"store"}
             zq == (z \cup {"store"}) \ both
             ze == z \cup {"store"}
             mq == m \cup both
             yq == y \cup both
  <2>1. /\ Tolerant(f, x) \/ ({"store", "context"} \cap (y1 \cup z1) = {})
        /\ "store" \notin m1 /\ "store" \notin y1
    OBVIOUS
  <2>2. mq \subseteq m2 /\ y2 \subseteq yq /\ z2 \subseteq zq /\ m \subseteq m1 /\ z3 \subseteq ze
    OBVIOUS
  <2> HIDE DEF m1, y1, z1
  <2>3. Triple(Native!FindCertificate, Holds(f, x, m1, y1, z1), Holds(f, x, m2, y2, z2),
               Holds(f, "raised", m1, y2, z3))
    BY <2>1, FindCertificateFrees
  <2> HIDE DEF m2, y2, z2, z3, zq, ze, mq, yq
  <2>4. Triple(Native!FindCertificate, Holds(f, x, m1, y1, z1), Holds(f, x, mq, yq, zq),
               Holds(f, "raised", m, yq, ze))
    <3>1. Holds(f, x, m2, y2, z2) \subseteq Holds(f, x, mq, yq, zq)
      BY <2>2, HoldsWeaker
    <3>2. Holds(f, "raised", m1, y2, z3) \subseteq Holds(f, "raised", m, yq, ze)
      BY <2>2, HoldsWeaker
    <3>3. QED
      BY <2>3, <3>1, <3>2, WeakenRule
  <2>5. QED
    BY <2>4 DEF m1, y1, z1, mq, yq, zq, ze
<1>5. Triple(<<Native!Use("pfx store")>>, Q, Q, E) /\ Triple(<<Native!Use("context")>>, Q, Q, E)
  BY UseRule, KnownResources
<1>6. Triple(<<Native!Use("pfx store"), Native!Use("context"), Native!Use("context")>>, Q, Q, E)
  BY <1>5, ThreeSteps
<1> DEFINE body == <<Native!Call, Native!Call, Native!Get("pfx store")>> \o Native!FindCertificate
                     \o <<Native!Use("pfx store"), Native!Use("context"), Native!Use("context")>>
           final == <<Native!FreeIf("context"), Native!FreeIf("pfx store")>>
<1>7. Triple(body, P, Q, E)
  BY <1>3, <1>4, <1>6, SequenceRule
<1>8. Triple(final, Q, R, X)
  BY FreeIfTwo, KnownResources
<1>9. Triple(final, E, X, X)
  BY <1>0, FreeIfTwo, KnownResources
<1>10. final # <<>>
  OBVIOUS
<1>11. QED
  BY <1>7, <1>8, <1>9, <1>10, BlockRule, HoldsSound DEF Native!DecodePkcs7

\* The certificate is gone unless an exception was raised. The context is freed twice: this is
\* shown for functions of which that is known.
LEMMA DeleteCertificateFrees ==
  ASSUME NEW f, NEW x, Tolerant(f, x), NEW y, {"store", "context"} \cap y = {}
  PROVE  LET all == Native!Resources IN
         Triple(Native!DeleteCertificate, Holds(f, x, {}, y, all),
                Holds(f, x, {}, y \ {"stored certificate"}, all),
                Holds(f, "raised", {}, y, all))
<1> DEFINE all == Native!Resources
           P == Holds(f, x, {}, y, all)
           S == Holds(f, x, {"context"}, y \cup {"context"}, all)
           Q == Holds(f, x, {}, y \ {"stored certificate"}, all)
           E == Holds(f, "raised", {}, y \cup {"context"}, all)
           X == Holds(f, "raised", {}, y, all)
<1>0. /\ Tolerant(f, "raised")
      /\ {"store", "context", "stored certificate"} \subseteq all /\ all = Native!Resources
  BY DEF Tolerant, Native!FreedTwice, Native!Resources
<1> HIDE DEF all
<1>1. Triple(Native!FindCertificate, P, S, E)
  <2> DEFINE one == {"context"}
             m2 == {} \cup one
             y2 == y \cup one
             z2 == (all \cup {"store"}) \ one
             z3 == all \cup {"store"}
             none == {}
  <2>1. Triple(Native!FindCertificate, P, Holds(f, x, m2, y2, z2), Holds(f, "raised", {}, y2, z3))
    BY FindCertificateFrees
  <2>2. one \subseteq m2 /\ z2 \subseteq all /\ z3 \subseteq all
    BY <1>0
  <2> HIDE DEF m2, y2, z2, z3, one
  <2>3. Triple(Native!FindCertificate, P, Holds(f, x, one, y2, all),
               Holds(f, "raised", {}, y2, all))
    BY <2>1, <2>2, WeakenHolds
  <2>4. QED
    BY <2>3 DEF y2, one
<1>2. Triple(<<Native!Free("context")>>, S, P, E)
  BY <1>0, FreeRule, KnownResources
<1>3. Triple(<<Native!Call>>, P, P, E)
  BY CallRule
<1>4. Triple(<<Native!Free("stored certificate")>>, P, Q, E)
  <2>1. /\ "stored certificate" \in Native!Resources /\ all \cup {"stored certificate"} \subseteq all
        /\ {} \subseteq {} \ {"stored certificate"}
    BY <1>0
  <2>2. QED
    BY <2>1, FreeRule
<1>5. Triple(<<Native!Free("context"), Native!Call, Native!Free("stored certificate")>>, S, Q, E)
  BY <1>2, <1>3, <1>4, ThreeSteps
<1> DEFINE body == Native!FindCertificate \o <<Native!Free("context"), Native!Call,
                                               Native!Free("stored certificate")>>
           final == <<Native!FreeIf("context")>>
<1>6. Triple(body, P, Q, E)
  BY <1>1, <1>5, SequenceRule
<1>7. Triple(final, Q, Q, X)
  <2> DEFINE less == y \ {"stored certificate"}
  <2>1. /\ "context" \in Native!Resources /\ all \cup {"context"} \subseteq all
        /\ {} \subseteq {} \ {"context"} /\ less \ {"context"} \subseteq less
    BY <1>0
  <2> HIDE DEF less
  <2>2. Triple(final, Holds(f, x, {}, less, all), Holds(f, x, {}, less, all), X)
    BY <2>1, FreeIfRule
  <2>3. QED
    BY <2>2 DEF less
<1>8. Triple(final, E, X, X)
  <2>1. /\ "context" \in Native!Resources /\ all \cup {"context"} \subseteq all
        /\ {} \subseteq {} \ {"context"} /\ (y \cup {"context"}) \ {"context"} \subseteq y
    BY <1>0
  <2>2. QED
    BY <1>0, <2>1, FreeIfRule
<1>9. final # <<>>
  OBVIOUS
<1>10. QED
  BY <1>6, <1>7, <1>8, <1>9, BlockRule, HoldsSound DEF Native!DeleteCertificate, all

\* import_cert() leaves nothing, with or without the certificate in the store already.
LEMMA ImportCertFrees ==
  ASSUME NEW f
  PROVE  LET all == {"encoded", "store", "context", "thumbprint"} IN
         Triple(Native!ImportCert, Holds(f, "any", {}, {}, {}), Holds(f, "any", {}, {}, all),
                Holds(f, "raised", {}, {}, all))
<1> DEFINE all == {"encoded", "store", "context", "thumbprint"}
           S(s) == Holds(f, "any", s, s, {})
           three == {"encoded", "store", "context"}
           E == Holds(f, "raised", {}, three, {"thumbprint"})
           Q == Holds(f, "any", three, three, {"thumbprint"})
           R == Holds(f, "any", {}, {}, all)
           X == Holds(f, "raised", {}, {}, all)
<1>1. Triple(<<Native!Call>>, S({}), S({}), E)
  BY CallRule
<1>2. Triple(<<Native!Get("encoded")>>, S({}), S({"encoded"}), E)
  BY GetRule, KnownResources
<1>3. Triple(<<Native!Use("encoded")>>, S({"encoded"}), S({"encoded"}), E)
  BY UseRule, KnownResources
<1>4. Triple(<<Native!Get("store")>>, S({"encoded"}), S({"encoded", "store"}), E)
  BY GetRule, KnownResources
<1>5. Triple(<<Native!Get("context")>>, S({"encoded", "store"}), S(three), E)
  BY GetRule, KnownResources
<1>6. Triple(<<Native!Use("context")>>, S(three), S(three), E)
      /\ Triple(<<>>, S(three), S(three), E)
  BY UseRule, KnownResources, NothingRule
<1>7. Triple(<<Native!Either(<<Native!Use("context")>>, <<>>)>>, S(three), S(three), E)
  BY <1>6, EitherRule, HoldsSound
<1> DEFINE calls == <<Native!Call, Native!Get("encoded"), Native!Use("encoded"),
                      Native!Get("store"), Native!Get("context"),
                      Native!Either(<<Native!Use("context")>>, <<>>)>>
<1>8. Triple(calls, S({}), S(three), E)
  BY <1>1, <1>2, <1>3, <1>4, <1>5, <1>7, SixSteps
<1>9. Triple(Native!Thumbprint, S(three), Q, E)
  <2>1. Triple(Native!Thumbprint, S(three), Holds(f, "any", three, three, {} \cup {"thumbprint"}),
               Holds(f, "raised", three, three, {} \cup {"thumbprint"}))
    BY ThumbprintFrees
  <2>2. Holds(f, "any", three, three, {} \cup {"thumbprint"}) \subseteq Q
    BY HoldsWeaker
  <2>3. Holds(f, "raised", three, three, {} \cup {"thumbprint"}) \subseteq E
    BY HoldsWeaker
  <2>4. QED
    BY <2>1, <2>2, <2>3, WeakenRule
<1> HIDE DEF calls
<1>10. Triple(calls \o Native!Thumbprint, S({}), Q, E)
  BY <1>8, <1>9, SequenceRule
<1> DEFINE final == <<Native!FreeIf("context"), Native!FreeIf("store"), Native!FreeIf("encoded")>>
<1>11. Triple(final, Q, R, X) /\ Triple(final, E, X, X)
  BY FreeIfThree, KnownResources
<1>12. final # <<>>
  OBVIOUS
<1>13. Triple(<<Native!Block(calls \o Native!Thumbprint, final)>>, S({}), R, X)
  BY <1>10, <1>11, <1>12, BlockRule, HoldsSound
<1>14. QED
  BY <1>13 DEF Native!ImportCert, calls

\* azureservice.py

\* get_server_certs() leaves the key container, and after an exception perhaps the transport
\* certificate.
LEMMA ServerCertsFrees ==
  LET f == "get_server_certs"
      key == {"key container"}
      cert == {"stored certificate"} IN
  Triple(Native!ServerCerts, Holds(f, "any", {}, {}, {}),
         Holds(f, "any", {}, key, Native!Resources),
         Holds(f, "raised", {}, key \cup cert, Native!Resources))
<1> DEFINE f == "get_server_certs"
           key == {"key container"}
           cert == {"stored certificate"}
           all == {"key", "provider", "store", "context", "name", "thumbprint"}
           both == key \cup cert
           Z == Native!Resources
           P == Holds(f, "any", {}, both, Z)
           R == Holds(f, "any", {}, key, Z)
           X == Holds(f, "raised", {}, both, Z)
<1>0. /\ all \cup {"store", "context", "pfx store"} \subseteq Z /\ Tolerant(f, "any")
         /\ Tolerant(f, "raised")
      /\ {"store", "context", "pfx store"} \cap both = {} /\ both \ {"stored certificate"} = key
  BY DEF Tolerant, Native!FreedTwice, Native!Resources
<1> HIDE DEF Z
<1>1. Triple(Native!CreateSelfSignedCert, Holds(f, "any", {}, {}, {}), P, X)
  <2>1. Triple(Native!CreateSelfSignedCert, Holds(f, "any", {}, {}, {}),
               Holds(f, "any", cert, both, all),
               Holds(f, "raised", {}, both, all))
    BY CreateSelfSignedCertFrees
  <2>2. all \subseteq Z /\ {} \subseteq cert
    BY <1>0
  <2> HIDE DEF all, both, cert
  <2>3. QED
    BY <2>1, <2>2, WeakenHolds
<1>2. Triple(<<Native!Call>>, P, P, X) /\ Triple(<<Native!Call>>, R, R, X)
  BY CallRule
<1> HIDE DEF f, both
<1>3. Triple(Native!DecodePkcs7, P, P, X)
  <2> DEFINE zz == Z \cup {"store", "context", "pfx store"}
  <2>1. Triple(Native!DecodePkcs7, P, Holds(f, "any", {}, both, zz),
               Holds(f, "raised", {}, both, zz))
    BY <1>0, DecodePkcs7Frees
  <2>2. zz = Z
    BY <1>0
  <2>3. QED
    BY <2>1, <2>2
<1>4. Triple(<<Native!Call>> \o Native!DecodePkcs7, P, P, X)
  BY <1>2, <1>3, SequenceRule
<1>5. Triple(Native!DeleteCertificate, P, Holds(f, "any", {}, both \ {"stored certificate"}, Z), X)
  BY <1>0, DeleteCertificateFrees DEF Z
<1>6. Triple(Native!DeleteCertificate, X, Holds(f, "raised", {}, both \ {"stored certificate"}, Z),
             X)
  BY <1>0, DeleteCertificateFrees DEF Z
<1>7. Triple(Native!DeleteCertificate, P, R, X)
  BY <1>0, <1>5
<1>8. Triple(Native!DeleteCertificate, X, X, X)
  <2> DEFINE less == both \ {"stored certificate"}
  <2>1. less \subseteq both
    OBVIOUS
  <2> HIDE DEF less
  <2>2. Triple(Native!DeleteCertificate, X, Holds(f, "raised", {}, less, Z), X)
    BY <1>6 DEF less
  <2>3. Holds(f, "raised", {}, less, Z) \subseteq X
    BY <2>1, HoldsWeaker
  <2>4. QED
    BY <2>2, <2>3, WeakenRule
<1>9. Native!DeleteCertificate # <<>>
  BY DEF Native!DeleteCertificate
<1> HIDE DEF P, R, X
<1>10. Triple(<<Native!Block(<<Native!Call>> \o Native!DecodePkcs7, Native!DeleteCertificate)>>, P,
              R, X)
  BY <1>4, <1>7, <1>8, <1>9, BlockRule, HoldsSound DEF P, R, X
<1>11. Triple(Native!ServerCerts, Holds(f, "any", {}, {}, {}), R, X)
  BY <1>1, <1>2, <1>10, SequenceRule DEF Native!ServerCerts
<1>12. QED
  BY <1>11 DEF f, both, Z, R, X

\* osutils/windows.py

\* create_user_logon_session() returns the token, and keeps it from no exception.
LEMMA LogonSessionFrees ==
  ASSUME NEW f
  PROVE  Triple(Native!LogonSession, Holds(f, "any", {}, {}, {}),
                Holds(f, "any", {"token"}, {"token", "profile"}, {}),
                Holds(f, "raised", {}, {}, {"token"}))
<1> DEFINE P == Holds(f, "any", {}, {}, {})
           S == Holds(f, "any", {"token"}, {"token"}, {})
           Q == Holds(f, "any", {"token"}, {"token", "profile"}, {})
           E == Holds(f, "raised", {}, {}, {"token"})
           F == Holds(f, "any", {}, {}, {"token"})
           failed == <<Native!Free("token"), Native!Step("raise", "none")>>
           this == <<Native!Have("profile")>>
           inner == <<Native!Either(this, failed)>>
<1>1. Triple(<<Native!Get("token")>>, P, S, E)
  BY GetRule, KnownResources
<1>2. Triple(<<>>, S, Q, E)
  BY NothingRule
<1>3. Triple(this, S, Q, E)
  BY HaveRule, KnownResources
<1>4. Triple(<<Native!Free("token")>>, S, F, E)
  BY FreeRule, KnownResources
<1>5. Triple(<<Native!Step("raise", "none")>>, F, Q, E)
  BY RaiseRule
<1>6. Triple(failed, S, Q, E)
  BY <1>4, <1>5, TwoSteps
<1>7. Triple(inner, S, Q, E)
  BY <1>3, <1>6, EitherRule, HoldsSound
<1>8. Triple(<<Native!Either(<<>>, inner)>>, S, Q, E)
  BY <1>2, <1>7, EitherRule, HoldsSound
<1>9. QED
  BY <1>1, <1>8, TwoSteps DEF Native!LogonSession

\* The first logon keeps the profile only.
LEMMA FirstLogonFrees ==
  ASSUME NEW f
  PROVE  Triple(Native!FirstLogon, Holds(f, "any", {}, {}, {}),
                Holds(f, "any", {}, {"profile"}, {"token"}),
                Holds(f, "raised", {}, {}, {"token"}))
<1> DEFINE Q == Holds(f, "any", {"token"}, {"token", "profile"}, {})
           E == Holds(f, "raised", {}, {}, {"token"})
<1>1. Triple(<<Native!Free("token")>>, Q, Holds(f, "any", {}, {"profile"}, {"token"}), E)
  BY FreeRule, KnownResources
<1>2. QED
  BY <1>1, LogonSessionFrees, SequenceRule DEF Native!FirstLogon

\* The respawn keeps the token and the profile, the process and the thread in no case.
LEMMA RespawnFrees ==
  ASSUME NEW f
  PROVE  LET kept == {"token", "profile"}
             all == {"token", "process", "thread"} IN
         Triple(Native!Respawn, Holds(f, "any", {}, {}, {}), Holds(f, "any", {}, kept, all),
                Holds(f, "raised", {}, kept, all))
<1> DEFINE kept == {"token", "profile"}
           all == {"token", "process", "thread"}
           P == Holds(f, "any", {"token"}, kept, {})
           S == Holds(f, "any", {"token", "process"}, kept \cup {"process"}, {})
           Q == Holds(f, "any", {"token", "process", "thread"}, kept \cup {"process", "thread"}, {})
           E == Holds(f, "raised", {}, kept \cup {"process", "thread"}, {})
           R == Holds(f, "any", {}, kept, all)
           X == Holds(f, "raised", {}, kept, all)
           wait == <<Native!Either(<<>>, <<Native!Use("process"), Native!Use("process")>>)>>
           body == <<Native!Use("token"), Native!Get("process"), Native!Get("thread"),
                     Native!Either(<<>>, <<Native!Use("process"), Native!Use("process")>>)>>
           final == <<Native!FreeIf("process"), Native!FreeIf("thread")>>
<1>1. Triple(<<Native!Use("token")>>, P, P, E)
  BY UseRule, KnownResources
<1>2. Triple(<<Native!Get("process")>>, P, S, E)
  BY GetRule, KnownResources
<1>3. Triple(<<Native!Get("thread")>>, S, Q, E)
  BY GetRule, KnownResources
<1>4. Triple(<<Native!Use("process")>>, Q, Q, E) /\ Triple(<<>>, Q, Q, E)
  BY UseRule, KnownResources, NothingRule
<1>5. Triple(<<Native!Use("process"), Native!Use("process")>>, Q, Q, E)
  BY <1>4, TwoSteps
<1>6. Triple(wait, Q, Q, E)
  BY <1>4, <1>5, EitherRule, HoldsSound
<1>7. Triple(body, P, Q, E)
  BY <1>1, <1>2, <1>3, <1>6, FourSteps
<1>8. Triple(final, Q, R, X) /\ Triple(final, E, X, X)
  BY FreeIfTwo, KnownResources
<1>9. final # <<>>
  OBVIOUS
<1>10. Triple(Native!ProcessAsUser, P, R, X)
  BY <1>7, <1>8, <1>9, BlockRule, HoldsSound DEF Native!ProcessAsUser
<1>11. Triple(Native!LogonSession, Holds(f, "any", {}, {}, {}), P, X)
  <2>1. Holds(f, "raised", {}, {}, {"token"}) \subseteq X
    <3>1. {} \subseteq kept /\ {"token"} \subseteq all
      OBVIOUS
    <3> HIDE DEF kept, all
    <3>2. QED
      BY <3>1, HoldsWeaker
  <2>2. QED
    BY <2>1, LogonSessionFrees, WeakenRule
<1>12. QED
  BY <1>10, <1>11, SequenceRule DEF Native!Respawn

\* The functions about a service close its handle, then the manager's.
LEMMA ServiceHandleFrees ==
  ASSUME NEW f
  PROVE  LET all == {"manager", "service"} IN
         Triple(Native!ServiceHandle, Holds(f, "any", {}, {}, {}), Holds(f, "any", {}, {}, all),
                Holds(f, "raised", {}, {}, all))
<1> DEFINE all == {"manager", "service"}
           manager == {"manager"}
           handles == {"service"}
           P == Holds(f, "any", {}, {}, {})
           S == Holds(f, "any", manager, manager, {})
           Q == Holds(f, "any", all, all, {})
           E == Holds(f, "raised", all, all, {})
           R == Holds(f, "any", manager, manager, handles)
           X == Holds(f, "raised", manager, manager, handles)
           RR == Holds(f, "any", {}, {}, all)
           XX == Holds(f, "raised", {}, {}, all)
           inner == <<Native!Use("service"), Native!Many(<<Native!Use("service")>>)>>
           handle == <<Native!Get("service"), Native!Block(inner, <<Native!Free("service")>>)>>
           final == <<Native!Free("manager")>>
<1>1. Triple(<<Native!Get("manager")>>, P, S, XX)
  BY GetRule, KnownResources
<1>2. Triple(<<Native!Get("service")>>, S, Q, X)
  BY GetRule, KnownResources
<1>3. Triple(<<Native!Use("service")>>, Q, Q, E)
  BY UseRule, KnownResources
<1>4. Triple(<<Native!Many(<<Native!Use("service")>>)>>, Q, Q, E)
  BY <1>3, ManyRule, HoldsSound
<1>5. Triple(inner, Q, Q, E)
  BY <1>3, <1>4, TwoSteps
<1>6. Triple(<<Native!Free("service")>>, Q, R, X) /\ Triple(<<Native!Free("service")>>, E, X, X)
  BY FreeRule, KnownResources
<1>7. <<Native!Free("service")>> # <<>> /\ final # <<>>
  OBVIOUS
<1>8. Triple(<<Native!Block(inner, <<Native!Free("service")>>)>>, Q, R, X)
  BY <1>5, <1>6, <1>7, BlockRule, HoldsSound
<1>9. Triple(handle, S, R, X)
  BY <1>2, <1>8, TwoSteps
<1>10. Triple(final, R, RR, XX) /\ Triple(final, X, XX, XX)
  BY FreeRule, KnownResources
<1>11. Triple(<<Native!Block(handle, final)>>, S, RR, XX)
  BY <1>7, <1>9, <1>10, BlockRule, HoldsSound
<1>12. QED
  BY <1>1, <1>11, TwoSteps DEF Native!ServiceHandle, Native!ServiceManager

\* create_service() closes both as well.
LEMMA CreateServiceFrees ==
  ASSUME NEW f
  PROVE  LET all == {"manager", "service"} IN
         Triple(Native!CreateService, Holds(f, "any", {}, {}, {}), Holds(f, "any", {}, {}, all),
                Holds(f, "raised", {}, {}, all))
<1> DEFINE all == {"manager", "service"}
           manager == {"manager"}
           P == Holds(f, "any", {}, {}, {})
           S == Holds(f, "any", manager, manager, {})
           Q == Holds(f, "any", all, all, {})
           R == Holds(f, "any", manager, manager, {"service"})
           E == Holds(f, "raised", manager, manager, {})
           RR == Holds(f, "any", {}, {}, all)
           XX == Holds(f, "raised", {}, {}, all)
           body == <<Native!Use("manager"), Native!Get("service"), Native!Free("service")>>
           final == <<Native!Free("manager")>>
<1>1. Triple(<<Native!Get("manager")>>, P, S, XX)
  BY GetRule, KnownResources
<1>2. Triple(<<Native!Use("manager")>>, S, S, E)
  BY UseRule, KnownResources
<1>3. Triple(<<Native!Get("service")>>, S, Q, E)
  BY GetRule, KnownResources
<1>4. Triple(<<Native!Free("service")>>, Q, R, E)
  BY FreeRule, KnownResources
<1>5. Triple(body, S, R, E)
  BY <1>2, <1>3, <1>4, ThreeSteps
<1>6. Triple(final, R, RR, XX) /\ Triple(final, E, XX, XX)
  BY FreeRule, KnownResources
<1>7. final # <<>>
  OBVIOUS
<1>8. Triple(<<Native!Block(body, final)>>, S, RR, XX)
  BY <1>5, <1>6, <1>7, BlockRule, HoldsSound
<1>9. QED
  BY <1>1, <1>8, TwoSteps DEF Native!CreateService, Native!ServiceManager

\* The forward table is freed; twice when there is no memory for a larger one.
LEMMA ForwardTableFrees ==
  LET f == "forward_table"
      heap == {"heap"} IN
  Triple(Native!ForwardTable, Holds(f, "any", {}, {}, {}), Holds(f, "any", {}, {}, heap),
         Holds(f, "raised", {}, {}, heap))
<1> DEFINE f == "forward_table"
           heap == {"heap"}
           P == Holds(f, "any", {}, {}, {})
           S == Holds(f, "any", heap, heap, {})
           F == Holds(f, "any", {}, {}, heap)
           E == Holds(f, "raised", {}, heap, heap)
           X == Holds(f, "raised", {}, {}, heap)
           larger == <<Native!Use("heap"), Native!Free("heap"), Native!Get("heap"),
                       Native!Use("heap")>>
           table == <<Native!Either(<<Native!Use("heap")>>, larger)>>
           body == <<Native!Either(<<Native!Use("heap")>>, larger),
                     Native!Many(<<Native!Use("heap")>>)>>
           final == <<Native!Free("heap")>>
<1>0. Tolerant(f, "raised")
  BY DEF Tolerant, Native!FreedTwice
<1>1. Triple(<<Native!Get("heap")>>, P, S, X)
  BY GetRule, KnownResources
<1>2. Triple(<<Native!Use("heap")>>, S, S, E)
  BY UseRule, KnownResources
<1>3. Triple(<<Native!Free("heap")>>, S, F, E)
  BY FreeRule, KnownResources
<1>4. Triple(<<Native!Get("heap")>>, F, S, E)
  BY GetRule, KnownResources
<1>5. Triple(larger, S, S, E)
  BY <1>2, <1>3, <1>4, FourSteps
<1>6. Triple(table, S, S, E)
  BY <1>2, <1>5, EitherRule, HoldsSound
<1>7. Triple(<<Native!Many(<<Native!Use("heap")>>)>>, S, S, E)
  BY <1>2, ManyRule, HoldsSound
<1>8. Triple(body, S, S, E)
  BY <1>6, <1>7, TwoSteps
<1>9. Triple(final, S, F, X)
  BY FreeRule, KnownResources
<1>10. Triple(final, E, X, X)
  BY <1>0, FreeRule, KnownResources
<1>11. final # <<>>
  OBVIOUS
<1>12. Triple(<<Native!Block(body, final)>>, S, F, X)
  BY <1>8, <1>9, <1>10, <1>11, BlockRule, HoldsSound
<1>13. QED
  BY <1>1, <1>12, TwoSteps DEF Native!ForwardTable

\* A disk that could not be opened is an invalid handle: it is had, and closed, like another.
LEMMA PhysicalDisksFrees ==
  ASSUME NEW f
  PROVE  LET all == {"disks", "detail", "disk"} IN
         Triple(Native!PhysicalDisks, Holds(f, "any", {}, {}, {}), Holds(f, "any", {}, {}, all),
                Holds(f, "raised", {}, {}, all))
<1> DEFINE all == {"disks", "detail", "disk"}
           disks == {"disks"}
           detail == {"disks", "detail"}
           freed == {"detail", "disk"}
           P == Holds(f, "any", {}, {}, {})
           I == Holds(f, "any", disks, disks, freed)
           J == Holds(f, "any", disks, disks, {"detail"})
           S == Holds(f, "any", detail, detail, {})
           T == Holds(f, "any", all, all, {})
           E == Holds(f, "raised", detail, all, {})
           X == Holds(f, "raised", disks, disks, freed)
           R == Holds(f, "any", {}, {}, all)
           XX == Holds(f, "raised", {}, {}, all)
           inner == <<Native!Use("disks"), Native!Find("disk"), Native!Use("disk")>>
           free == <<Native!Free("detail"), Native!FreeIf("disk")>>
           body == <<Native!Use("disks"), Native!Null("disk"), Native!Call, Native!Get("detail"),
                     Native!Block(inner, free)>>
           final == <<Native!FreeIf("disks")>>
<1>1. Triple(<<Native!Find("disks")>>, P, I, XX)
  BY FindRule, KnownResources
<1>2. Triple(<<Native!Use("disks")>>, I, I, X)
  BY UseRule, KnownResources
<1>3. Triple(<<Native!Null("disk")>>, I, J, X)
  BY NullRule, KnownResources
<1>4. Triple(<<Native!Call>>, J, J, X)
  BY CallRule
<1>5. Triple(<<Native!Get("detail")>>, J, S, X)
  BY GetRule, KnownResources
<1>6. Triple(inner, S, T, E)
  <2>1. Triple(<<Native!Use("disks")>>, S, S, E)
    BY UseRule, KnownResources
  <2>2. Triple(<<Native!Find("disk")>>, S, T, E)
    BY FindRule, KnownResources
  <2>3. Triple(<<Native!Use("disk")>>, T, T, E)
    BY UseRule, KnownResources
  <2>4. QED
    BY <2>1, <2>2, <2>3, ThreeSteps
<1>7. Triple(free, T, I, X) /\ Triple(free, E, X, X)
  <2>1. /\ Triple(<<Native!Free("detail")>>, T,
                  Holds(f, "any", disks, {"disks", "disk"}, {"detail"}), X)
        /\ Triple(<<Native!Free("detail")>>, E, Holds(f, "raised", disks, {"disks", "disk"},
                                                      {"detail"}), X)
    BY FreeRule, KnownResources
  <2>2. /\ Triple(<<Native!FreeIf("disk")>>, Holds(f, "any", disks, {"disks", "disk"}, {"detail"}),
                  I, X)
        /\ Triple(<<Native!FreeIf("disk")>>, Holds(f, "raised", disks, {"disks", "disk"},
                                                   {"detail"}), X, X)
    BY FreeIfRule, KnownResources
  <2>3. QED
    BY <2>1, <2>2, TwoSteps
<1>8. free # <<>> /\ final # <<>>
  OBVIOUS
<1>9. Triple(<<Native!Block(inner, free)>>, S, I, X)
  BY <1>6, <1>7, <1>8, BlockRule, HoldsSound
<1>10. Triple(body, I, I, X)
  BY <1>2, <1>3, <1>4, <1>5, <1>9, FiveSteps
<1>11. Triple(<<Native!Many(body)>>, I, I, X)
  BY <1>10, ManyRule, HoldsSound
<1>12. Triple(final, I, R, XX) /\ Triple(final, X, XX, XX)
  BY FreeIfRule, KnownResources
<1>13. Triple(<<Native!Block(<<Native!Many(body)>>, final)>>, I, R, XX)
  BY <1>8, <1>11, <1>12, BlockRule, HoldsSound
<1>14. QED
  BY <1>1, <1>13, TwoSteps DEF Native!PhysicalDisks

\* The search for volumes is closed.
LEMMA VolumesFrees ==
  ASSUME NEW f
  PROVE  LET volumes == {"volumes"} IN
         Triple(Native!Volumes, Holds(f, "any", {}, {}, {}), Holds(f, "any", {}, {}, volumes),
                Holds(f, "raised", {}, {}, volumes))
<1> DEFINE volumes == {"volumes"}
           P == Holds(f, "any", {}, {}, {})
           Q == Holds(f, "any", volumes, volumes, {})
           E == Holds(f, "raised", volumes, volumes, {})
           R == Holds(f, "any", {}, {}, volumes)
           X == Holds(f, "raised", {}, {}, volumes)
           body == <<Native!Use("volumes"), Native!Many(<<Native!Use("volumes")>>)>>
           final == <<Native!FreeIf("volumes")>>
<1>1. Triple(<<Native!Find("volumes")>>, P, Q, X)
  BY FindRule, KnownResources
<1>2. Triple(<<Native!Use("volumes")>>, Q, Q, E)
  BY UseRule, KnownResources
<1>3. Triple(<<Native!Many(<<Native!Use("volumes")>>)>>, Q, Q, E)
  BY <1>2, ManyRule, HoldsSound
<1>4. Triple(body, Q, Q, E)
  BY <1>2, <1>3, TwoSteps
<1>5. Triple(final, Q, R, X) /\ Triple(final, E, X, X)
  BY FreeIfRule, KnownResources
<1>6. final # <<>>
  OBVIOUS
<1>7. Triple(<<Native!Block(body, final)>>, Q, R, X)
  BY <1>4, <1>5, <1>6, BlockRule, HoldsSound
<1>8. QED
  BY <1>1, <1>7, TwoSteps DEF Native!Volumes

\* utils/windows/network.py

\* The memory for the adapters is freed, unless a call before the try statement raises.
LEMMA AdapterAddressesFrees ==
  ASSUME NEW f
  PROVE  LET heap == {"heap"} IN
         Triple(Native!AdapterAddresses, Holds(f, "any", {}, {}, {}),
                Holds(f, "any", {}, {}, heap), Holds(f, "raised", {}, heap, heap))
<1> DEFINE heap == {"heap"}
           P == Holds(f, "any", {}, {}, {})
           Q == Holds(f, "any", heap, heap, {})
           E == Holds(f, "raised", heap, heap, {})
           R == Holds(f, "any", {}, {}, heap)
           X == Holds(f, "raised", {}, heap, heap)
           body == <<Native!Use("heap"), Native!Many(<<Native!Use("heap")>>)>>
           final == <<Native!Free("heap")>>
<1>1. Triple(<<Native!Call>>, P, P, X) /\ Triple(<<Native!Call>>, Q, Q, X)
  BY CallRule
<1>2. Triple(<<Native!Get("heap")>>, P, Q, X)
  BY GetRule, KnownResources
<1>3. Triple(<<Native!Use("heap")>>, Q, Q, E)
  BY UseRule, KnownResources
<1>4. Triple(<<Native!Many(<<Native!Use("heap")>>)>>, Q, Q, E)
  BY <1>3, ManyRule, HoldsSound
<1>5. Triple(body, Q, Q, E)
  BY <1>3, <1>4, TwoSteps
<1>6. Triple(final, Q, R, X) /\ Triple(final, E, X, X)
  BY FreeRule, KnownResources
<1>7. final # <<>>
  OBVIOUS
<1>8. Triple(<<Native!Block(body, final)>>, Q, R, X)
  BY <1>5, <1>6, <1>7, BlockRule, HoldsSound
<1>9. QED
  BY <1>1, <1>2, <1>8, FourSteps DEF Native!AdapterAddresses

\* disk.py

\* A device is closed, unless its geometry could not be read.
LEMMA DeviceFrees ==
  ASSUME NEW f
  PROVE  LET disk == {"disk"} IN
         Triple(Native!Device, Holds(f, "any", {}, {}, {}), Holds(f, "any", {}, {}, disk),
                Holds(f, "raised", {}, disk, disk))
<1> DEFINE disk == {"disk"}
           P == Holds(f, "any", {}, {}, {})
           Q == Holds(f, "any", disk, disk, {})
           E == Holds(f, "raised", disk, disk, {})
           R == Holds(f, "any", {}, {}, disk)
           X == Holds(f, "raised", {}, disk, disk)
           body == <<Native!Use("disk"), Native!Many(<<Native!Use("disk")>>)>>
           final == <<Native!FreeIf("disk")>>
<1>1. Triple(<<Native!Get("disk")>>, P, Q, X)
  BY GetRule, KnownResources
<1>2. Triple(<<Native!Use("disk")>>, Q, Q, E)
  BY UseRule, KnownResources
<1>3. Triple(<<Native!Use("disk")>>, Q, Q, X)
  BY UseRule, KnownResources
<1>4. Triple(<<Native!Many(<<Native!Use("disk")>>)>>, Q, Q, E)
  BY <1>2, ManyRule, HoldsSound
<1>5. Triple(body, Q, Q, E)
  BY <1>2, <1>4, TwoSteps
<1>6. Triple(final, Q, R, X) /\ Triple(final, E, X, X)
  BY FreeIfRule, KnownResources
<1>7. final # <<>>
  OBVIOUS
<1>8. Triple(<<Native!Block(body, final)>>, Q, R, X)
  BY <1>5, <1>6, <1>7, BlockRule, HoldsSound
<1>9. Triple(Native!Geometry, Q, Q, X)
  BY <1>3 DEF Native!Geometry
<1>10. Triple(<<Native!Get("disk")>> \o Native!Geometry, P, Q, X)
  BY <1>1, <1>9, SequenceRule
<1>11. QED
  BY <1>8, <1>10, SequenceRule DEF Native!Device

\* storage/vds_storage_manager.py and wsm_storage_manager.py

\* The names and the extents are freed in each round, whatever raises in it.
LEMMA ExtendVolumesFrees ==
  ASSUME NEW f
  PROVE  LET all == {"volume name", "extents"} IN
         Triple(Native!ExtendVolumes, Holds(f, "any", {}, {}, {}), Holds(f, "any", {}, {}, all),
                Holds(f, "raised", {}, {}, all))
<1> DEFINE all == {"volume name", "extents"}
           named == {"volume name"}
           extents == {"extents"}
           P == Holds(f, "any", {}, {}, {})
           I == Holds(f, "any", {}, {}, all)
           J == Holds(f, "any", named, named, extents)
           S == Holds(f, "any", all, all, {})
           T == Holds(f, "raised", all, all, {})
           E == Holds(f, "raised", named, named, extents)
           X == Holds(f, "raised", {}, {}, all)
           volume == <<Native!Use("extents")>>
           free == <<Native!Free("extents")>>
           extent == <<Native!Get("extents"), Native!Block(volume, free)>>
           after == <<Native!Use("volume name"), Native!Call>>
           path == Native!VolumeExtents \o after
           body == <<Native!Use("volume name"),
                     Native!Either(<<>>,
                                   Native!VolumeExtents \o <<Native!Use("volume name"),
                                                             Native!Call>>)>>
           final == <<Native!Free("volume name")>>
           round == <<Native!Get("volume name"), Native!Block(body, final)>>
<1>1. Triple(<<Native!Get("extents")>>, J, S, E)
  BY GetRule, KnownResources
<1>2. Triple(volume, S, S, T)
  BY UseRule, KnownResources
<1>3. Triple(free, S, J, E) /\ Triple(free, T, E, E)
  BY FreeRule, KnownResources
<1>4. free # <<>> /\ final # <<>>
  OBVIOUS
<1>5. Triple(<<Native!Block(volume, free)>>, S, J, E)
  BY <1>2, <1>3, <1>4, BlockRule, HoldsSound
<1>6. Triple(extent, J, J, E)
  BY <1>1, <1>5, TwoSteps
<1>7. Triple(Native!VolumeExtents, J, J, E)
  BY <1>6, ManyRule, HoldsSound DEF Native!VolumeExtents
<1>8. Triple(<<Native!Use("volume name")>>, J, J, E) /\ Triple(<<Native!Call>>, J, J, E)
      /\ Triple(<<>>, J, J, E)
  BY UseRule, KnownResources, CallRule, NothingRule
<1>9. Triple(after, J, J, E)
  BY <1>8, TwoSteps
<1>10. Triple(path, J, J, E)
  BY <1>7, <1>9, SequenceRule
<1>11. Triple(<<Native!Either(<<>>, path)>>, J, J, E)
  BY <1>8, <1>10, EitherRule, HoldsSound
<1>12. Triple(body, J, J, E)
  BY <1>8, <1>11, TwoSteps
<1>13. Triple(final, J, I, X) /\ Triple(final, E, X, X)
  BY FreeRule, KnownResources
<1>14. Triple(<<Native!Block(body, final)>>, J, I, X)
  BY <1>4, <1>12, <1>13, BlockRule, HoldsSound
<1>15. Triple(<<Native!Get("volume name")>>, I, J, X)
  BY GetRule, KnownResources
<1>16. Triple(round, I, I, X)
  BY <1>14, <1>15, TwoSteps
<1>17. Triple(<<Native!Many(round)>>, I, I, X)
  BY <1>16, ManyRule, HoldsSound
<1>18. Triple(<<Native!Call>>, P, I, X)
  BY CallRule
<1>19. QED
  BY <1>17, <1>18, TwoSteps DEF Native!ExtendVolumes

\* The device of the SAN policy is closed.
LEMMA SanPolicyFrees ==
  ASSUME NEW f
  PROVE  LET disk == {"disk"} IN
         Triple(Native!SanPolicyControl, Holds(f, "any", {}, {}, {}),
                Holds(f, "any", {}, {}, disk), Holds(f, "raised", {}, {}, disk))
<1> DEFINE disk == {"disk"}
           P == Holds(f, "any", {}, {}, {})
           Q == Holds(f, "any", disk, disk, {})
           E == Holds(f, "raised", disk, disk, {})
           R == Holds(f, "any", {}, {}, disk)
           X == Holds(f, "raised", {}, {}, disk)
           body == <<Native!Use("disk")>>
           final == <<Native!Free("disk")>>
<1>1. Triple(<<Native!Get("disk")>>, P, Q, X)
  BY GetRule, KnownResources
<1>2. Triple(body, Q, Q, E)
  BY UseRule, KnownResources
<1>3. Triple(final, Q, R, X) /\ Triple(final, E, X, X)
  BY FreeRule, KnownResources
<1>4. final # <<>>
  OBVIOUS
<1>5. Triple(<<Native!Block(body, final)>>, Q, R, X)
  BY <1>2, <1>3, <1>4, BlockRule, HoldsSound
<1>6. QED
  BY <1>1, <1>5, TwoSteps DEF Native!SanPolicyControl

-----------------------------------------------------------------------------
(* Every function. *)

\* What there is before the call: a certificate that is to be deleted was stored.
Begun(f) == IF f = "delete_certificate_from_store" THEN {"stored certificate"} ELSE {}

\* A function that keeps no more than what it is for.
LEMMA CallIsSafe ==
  ASSUME NEW f, NEW p, NEW m, NEW y, NEW z, NEW me, NEW ye, NEW ze,
         Triple(p, Holds(f, "any", {}, Begun(f), {}), Holds(f, "any", m, y, z),
                Holds(f, "raised", me, ye, ze)),
         y \subseteq Native!Kept(f), ye \subseteq Native!Kept(f) \cup Native!KeptByException(f)
  PROVE  \A d \in Holds(f, "any", {}, Begun(f), {}) : Safe(<<Frame(p, <<>>, FALSE)>>, d)
<1>1. \A d \in Holds(f, "any", m, y, z) \cup Holds(f, "raised", me, ye, ze) : GivenBack(d)
  BY DEF Holds, GivenBack
<1> DEFINE P == Holds(f, "any", {}, Begun(f), {})
           Q == Holds(f, "any", m, y, z)
           E == Holds(f, "raised", me, ye, ze)
<1>2. Sound(P) /\ Settled(P) /\ Sound(Q) /\ Settled(Q) /\ Sound(E) /\ Settled(E)
  BY HoldsSound
<1> HIDE DEF P, Q, E
<1>3. \A d \in P : Safe(<<Frame(p, <<>>, FALSE)>>, d)
  BY <1>1, <1>2, FunctionRule DEF P, Q, E
<1>4. QED
  BY <1>3 DEF P

\* Each of the functions is safe to call.
LEMMA EveryCall ==
  ASSUME NEW f \in DOMAIN Native!Body
  PROVE  \A d \in Holds(f, "any", {}, Begun(f), {}) : Safe(<<Frame(Native!Body[f], <<>>, FALSE)>>,
                                                           d)
<1> DEFINE Goal(g) == \A d \in Holds(g, "any", {}, Begun(g),
                                     {}) : Safe(<<Frame(Native!Body[g], <<>>, FALSE)>>, d)
<1>1. /\ \A g : g # "delete_certificate_from_store" => Begun(g) = {}
      /\ Begun("delete_certificate_from_store") = {"stored certificate"}
  BY DEF Begun
<1>2. Goal("generate_key")
  <2>1. Native!Body["generate_key"] = Native!GenerateKey /\ Begun("generate_key") = {}
    BY DEF Native!Body, Begun
  <2>2. QED
    BY <2>1, GenerateKeyFrees, CallIsSafe DEF Native!Kept, Native!KeptByException
<1>3. Goal("create_self_signed_cert")
  <2>1. Native!Body["create_self_signed_cert"] = Native!CreateSelfSignedCert
        /\ Begun("create_self_signed_cert") = {}
    BY DEF Native!Body, Begun
  <2>2. QED
    BY <2>1, CreateSelfSignedCertFrees, CallIsSafe DEF Native!Kept, Native!KeptByException
<1>4. Goal("import_pfx_certificate")
  <2>1. Native!Body["import_pfx_certificate"] = Native!ImportPfxCertificate
        /\ Begun("import_pfx_certificate") = {}
    BY DEF Native!Body, Begun
  <2>2. QED
    BY <2>1, ImportPfxCertificateFrees, CallIsSafe DEF Native!Kept, Native!KeptByException
<1>5. Goal("import_cert")
  <2>1. Native!Body["import_cert"] = Native!ImportCert /\ Begun("import_cert") = {}
    BY DEF Native!Body, Begun
  <2>2. QED
    BY <2>1, ImportCertFrees, CallIsSafe DEF Native!Kept, Native!KeptByException
<1>6. Goal("get_server_certs")
  <2>1. Native!Body["get_server_certs"] = Native!ServerCerts /\ Begun("get_server_certs") = {}
    BY DEF Native!Body, Begun
  <2>2. QED
    BY <2>1, ServerCertsFrees, CallIsSafe DEF Native!Kept, Native!KeptByException
<1>7. Goal("first_logon")
  <2>1. Native!Body["first_logon"] = Native!FirstLogon /\ Begun("first_logon") = {}
    BY DEF Native!Body, Begun
  <2>2. QED
    BY <2>1, FirstLogonFrees, CallIsSafe DEF Native!Kept, Native!KeptByException
<1>8. Goal("respawn")
  <2>1. Native!Body["respawn"] = Native!Respawn /\ Begun("respawn") = {}
    BY DEF Native!Body, Begun
  <2>2. QED
    BY <2>1, RespawnFrees, CallIsSafe DEF Native!Kept, Native!KeptByException
<1>9. Goal("service")
  <2>1. Native!Body["service"] = Native!ServiceHandle /\ Begun("service") = {}
    BY DEF Native!Body, Begun
  <2>2. QED
    BY <2>1, ServiceHandleFrees, CallIsSafe DEF Native!Kept, Native!KeptByException
<1>10. Goal("create_service")
  <2>1. Native!Body["create_service"] = Native!CreateService /\ Begun("create_service") = {}
    BY DEF Native!Body, Begun
  <2>2. QED
    BY <2>1, CreateServiceFrees, CallIsSafe DEF Native!Kept, Native!KeptByException
<1>11. Goal("forward_table")
  <2>1. Native!Body["forward_table"] = Native!ForwardTable /\ Begun("forward_table") = {}
    BY DEF Native!Body, Begun
  <2>2. QED
    BY <2>1, ForwardTableFrees, CallIsSafe DEF Native!Kept, Native!KeptByException
<1>12. Goal("physical_disks")
  <2>1. Native!Body["physical_disks"] = Native!PhysicalDisks /\ Begun("physical_disks") = {}
    BY DEF Native!Body, Begun
  <2>2. QED
    BY <2>1, PhysicalDisksFrees, CallIsSafe DEF Native!Kept, Native!KeptByException
<1>13. Goal("volumes")
  <2>1. Native!Body["volumes"] = Native!Volumes /\ Begun("volumes") = {}
    BY DEF Native!Body, Begun
  <2>2. QED
    BY <2>1, VolumesFrees, CallIsSafe DEF Native!Kept, Native!KeptByException
<1>14. Goal("adapter_addresses")
  <2>1. Native!Body["adapter_addresses"] = Native!AdapterAddresses
        /\ Begun("adapter_addresses") = {}
    BY DEF Native!Body, Begun
  <2>2. QED
    BY <2>1, AdapterAddressesFrees, CallIsSafe DEF Native!Kept, Native!KeptByException
<1>15. Goal("device")
  <2>1. Native!Body["device"] = Native!Device /\ Begun("device") = {}
    BY DEF Native!Body, Begun
  <2>2. QED
    BY <2>1, DeviceFrees, CallIsSafe DEF Native!Kept, Native!KeptByException
<1>16. Goal("extend_volumes")
  <2>1. Native!Body["extend_volumes"] = Native!ExtendVolumes /\ Begun("extend_volumes") = {}
    BY DEF Native!Body, Begun
  <2>2. QED
    BY <2>1, ExtendVolumesFrees, CallIsSafe DEF Native!Kept, Native!KeptByException
<1>17. Goal("san_policy")
  <2>1. Native!Body["san_policy"] = Native!SanPolicyControl /\ Begun("san_policy") = {}
    BY DEF Native!Body, Begun
  <2>2. QED
    BY <2>1, SanPolicyFrees, CallIsSafe DEF Native!Kept, Native!KeptByException
<1>18. Goal("decode_pkcs7")
  <2> DEFINE none == {}
             zz == none \cup {"store", "context", "pfx store"}
  <2>1. Native!Body["decode_pkcs7"] = Native!DecodePkcs7 /\ Begun("decode_pkcs7") = none
    BY DEF Native!Body, Begun
  <2>2. Triple(Native!DecodePkcs7, Holds("decode_pkcs7", "any", none, none, none),
               Holds("decode_pkcs7", "any", none, none, zz),
               Holds("decode_pkcs7", "raised", none, none, zz))
    BY DecodePkcs7Frees
  <2>3. QED
    BY <2>1, <2>2, CallIsSafe
<1>19. Goal("delete_certificate_from_store")
  <2> DEFINE g == "delete_certificate_from_store"
             y == {"stored certificate"}
             less == y \ {"stored certificate"}
  <2>1. Native!Body[g] = Native!DeleteCertificate /\ Begun(g) = y /\ Tolerant(g, "any")
        /\ {"store", "context"} \cap y = {}
    BY DEF Native!Body, Begun, Tolerant, Native!FreedTwice
  <2>2. less \subseteq Native!Kept(g) /\ y \subseteq Native!Kept(g) \cup Native!KeptByException(g)
    BY DEF Native!Kept, Native!KeptByException
  <2> HIDE DEF g, y
  <2>3. Triple(Native!DeleteCertificate, Holds(g, "any", {}, y, Native!Resources),
               Holds(g, "any", {}, less, Native!Resources),
               Holds(g, "raised", {}, y, Native!Resources))
    BY <2>1, DeleteCertificateFrees
  <2>4. Holds(g, "any", {}, y, {}) \subseteq Holds(g, "any", {}, y, Native!Resources)
    BY HoldsWeaker
  <2>5. Triple(Native!DeleteCertificate, Holds(g, "any", {}, y, {}),
               Holds(g, "any", {}, less, Native!Resources),
               Holds(g, "raised", {}, y, Native!Resources))
    BY <2>3, <2>4, WeakenRule
  <2>6. Goal(g)
    BY <2>1, <2>2, <2>5, CallIsSafe
  <2>7. QED
    BY <2>6 DEF g
<1>20. f \in {"generate_key", "create_self_signed_cert", "import_pfx_certificate", "import_cert",
              "get_server_certs", "first_logon", "respawn", "service", "create_service",
              "forward_table", "physical_disks", "volumes", "adapter_addresses", "device",
              "extend_volumes", "san_policy", "decode_pkcs7", "delete_certificate_from_store"}
  BY DEF Native!Body
<1> HIDE DEF Goal
<1>21. Goal(f)
  BY <1>2, <1>3, <1>4, <1>5, <1>6, <1>7, <1>8, <1>9, <1>10, <1>11, <1>12, <1>13, <1>14, <1>15,
     <1>16, <1>17, <1>18, <1>19, <1>20
<1>22. QED
  BY <1>21 DEF Goal

-----------------------------------------------------------------------------
(* The machine and the variables. *)

\* The variables as data.
Now ==
  [function |-> function, have |-> {r \in Native!Resources : held[r] \in {"live", "invalid"}},
   freed |-> {r \in Native!Resources : held[r] = "freed"}, wrong |-> wrong, raised |-> raised,
   rounds |-> rounds]

\* Its fields.
LEMMA NowFacts ==
  /\ Now.function = function /\ Now.wrong = wrong /\ Now.raised = raised /\ Now.rounds = rounds
  /\ Now.have = {r \in Native!Resources : held[r] \in {"live", "invalid"}}
  /\ Now.freed = {r \in Native!Resources : held[r] = "freed"}
BY DEF Now

\* Its fields after a step.
LEMMA NowFactsNext ==
  /\ Now'.function = function' /\ Now'.wrong = wrong' /\ Now'.raised = raised'
     /\ Now'.rounds = rounds'
  /\ Now'.have = {r \in Native!Resources : held'[r] \in {"live", "invalid"}}
  /\ Now'.freed = {r \in Native!Resources : held'[r] = "freed"}
BY DEF Now

\* A call of the model that succeeds.
LEMMA DoneNow ==
  ASSUME Native!TypeOK, Native!TypeOK',
         \/ Native!Succeed \/ Native!Obtain \/ Native!NotFound
         \/ Native!Apply \/ Native!Release \/ Native!Forget
  PROVE  Done(Native!Op, Now, Now') /\ frames' = Put(frames, Tail(frames[1].rest)) /\ Native!Running
<1> DEFINE o == Native!Op
           d == Now
           e == Now'
<1>1. frames' = Put(frames, Tail(frames[1].rest)) /\ Native!Running
  BY DEF Native!Succeed, Native!Obtain, Native!NotFound, Native!Apply, Native!Release,
       Native!Forget, Native!Doing, Native!Proceed, Native!Continue, Put, Native!Top
<1>2. e.function = d.function /\ e.rounds = d.rounds /\ (d.raised => e.raised)
  BY NowFacts, NowFactsNext DEF Native!Succeed, Native!Obtain, Native!NotFound, Native!Apply,
       Native!Release, Native!Forget
<1>3. o.r \notin Native!Resources => held' = held \/ o.do \in Takes
  BY DEF Native!Succeed, Native!Obtain, Native!NotFound, Native!Apply, Native!Release,
       Native!Forget, Native!Doing, Takes
<1>4. CASE Native!Succeed
  <2>1. o.do = "call" /\ UNCHANGED <<held, wrong>>
    BY <1>4 DEF Native!Succeed, Native!Doing
  <2> HIDE DEF o
  <2>2. e.have = d.have /\ e.freed = d.freed /\ (e.wrong => d.wrong)
    BY <2>1, NowFacts, NowFactsNext
  <2> HIDE DEF d, e
  <2>3. Done(o, d, e)
    BY <1>2, <2>1, <2>2 DEF Done
  <2>4. QED
    BY <1>1, <2>3 DEF o, d, e
<1>5. CASE o.r \notin Native!Resources /\ o.do \in Takes
  <2> HIDE DEF o, d, e
  <2>1. Done(o, d, e)
    BY <1>2, <1>5 DEF Done
  <2>2. QED
    BY <1>1, <2>1 DEF o, d, e
<1>6. CASE o.r \in Native!Resources /\ (Native!Obtain \/ Native!NotFound)
  <2>1. /\ o.do \in {"get", "have", "find"}
        /\ \E v \in {"live", "invalid"} : held' = [held EXCEPT ![o.r] = v]
        /\ wrong' => wrong \/ held[o.r] = "live"
    <3>1. CASE Native!Obtain
      BY <3>1 DEF Native!Obtain, Native!Doing
    <3>2. CASE Native!NotFound
      BY <3>2 DEF Native!NotFound, Native!Doing
    <3>3. QED
      BY <1>6, <3>1, <3>2
  <2> HIDE DEF o
  <2>2. e.have = d.have \cup {o.r} /\ e.freed = d.freed \ {o.r}
        /\ (e.wrong => d.wrong \/ o.r \in d.have)
    BY <1>6, <2>1, NowFacts, NowFactsNext DEF Native!TypeOK
  <2> HIDE DEF d, e
  <2>3. Done(o, d, e)
    BY <1>2, <2>1, <2>2 DEF Done
  <2>4. QED
    BY <1>1, <2>3 DEF o, d, e
<1>7. CASE o.r \in Native!Resources /\ Native!Apply
  <2>1. o.do = "use" /\ held' = held
        /\ (wrong' => wrong \/ held[o.r] # "live") /\ held[o.r] # "invalid"
    BY <1>7 DEF Native!Apply, Native!Doing
  <2> HIDE DEF o
  <2>2. e.have = d.have /\ e.freed = d.freed /\ (e.wrong => d.wrong \/ o.r \notin d.have)
    BY <1>7, <2>1, NowFacts, NowFactsNext DEF Native!TypeOK
  <2> HIDE DEF d, e
  <2>3. Done(o, d, e)
    BY <1>2, <2>1, <2>2 DEF Done
  <2>4. QED
    BY <1>1, <2>3 DEF o, d, e
<1>8. CASE o.r \in Native!Resources /\ Native!Release
  <2> DEFINE skip == o.do = "free if" /\ held[o.r] = "none"
  <2>1. /\ o.do \in {"free", "free if"}
        /\ held' = IF skip THEN held ELSE [held EXCEPT ![o.r] = "freed"]
        /\ wrong' => wrong \/ (~ skip /\ held[o.r] \in {"none", "freed"})
    BY <1>8 DEF Native!Release, Native!Doing
  <2> HIDE DEF o
  <2>2. CASE skip
    <3>1. e.have = d.have \ {o.r} /\ e.freed \subseteq d.freed \cup {o.r} /\ (e.wrong => d.wrong)
      BY <1>8, <2>1, <2>2, NowFacts, NowFactsNext DEF Native!TypeOK
    <3> HIDE DEF d, e
    <3>2. Done(o, d, e)
      BY <1>2, <2>2, <3>1 DEF Done
    <3>3. QED
      BY <1>1, <3>2 DEF o, d, e
  <2>3. CASE ~ skip
    <3>0. held' = [held EXCEPT ![o.r] = "freed"]
      BY <2>1, <2>3
    <3>1. e.have = d.have \ {o.r} /\ e.freed = d.freed \cup {o.r}
      <4> HIDE DEF skip
      <4>1. QED
        BY <1>8, <3>0, NowFacts, NowFactsNext DEF Native!TypeOK
    <3>2. /\ o.do = "free" => (e.wrong => d.wrong \/ o.r \notin d.have)
          /\ o.do = "free if" => (e.wrong => d.wrong \/ o.r \in d.freed)
      BY <1>8, <2>1, <2>3, NowFacts, NowFactsNext DEF Native!TypeOK
    <3> HIDE DEF d, e
    <3>3. Done(o, d, e)
      BY <1>2, <2>1, <3>1, <3>2 DEF Done
    <3>4. QED
      BY <1>1, <3>3 DEF o, d, e
  <2>4. QED
    BY <2>2, <2>3
<1>9. CASE o.r \in Native!Resources /\ Native!Forget
  <2>1. o.do = "null" /\ held' = [held EXCEPT ![o.r] = "none"]
        /\ (wrong' => wrong \/ held[o.r] = "live")
    BY <1>9 DEF Native!Forget, Native!Doing
  <2> HIDE DEF o
  <2>2. /\ e.have = d.have \ {o.r} /\ e.freed = d.freed \ {o.r}
        /\ e.wrong => d.wrong \/ o.r \in d.have
    BY <1>9, <2>1, NowFacts, NowFactsNext DEF Native!TypeOK
  <2> HIDE DEF d, e
  <2>3. Done(o, d, e)
    BY <1>2, <2>1, <2>2 DEF Done
  <2>4. QED
    BY <1>1, <2>3 DEF o, d, e
<1>10. o.r \notin Native!Resources => Native!Succeed \/ o.do \in Takes
  BY DEF Native!Obtain, Native!NotFound, Native!Apply, Native!Release, Native!Forget, Native!Doing,
       Takes
<1>11. QED
  BY <1>4, <1>5, <1>6, <1>7, <1>8, <1>9, <1>10

\* A call of the model that raises.
LEMMA FailsNow ==
  ASSUME Native!TypeOK, Native!TypeOK', Native!Raise
  PROVE  Fails(Native!Op, Now, Now') /\ frames' = Native!Out(frames) /\ Native!Running
<1> DEFINE o == Native!Op
           d == Now
           e == Now'
<1>1. /\ o.do \in {"call", "get", "use", "raise"} /\ frames' = Native!Out(frames) /\ Native!Running
      /\ UNCHANGED <<function, held, rounds>> /\ raised'
      /\ wrong' => wrong \/ (o.do = "use" /\ held[o.r] \in {"none", "freed"})
  BY DEF Native!Raise, Native!Doing
<1> HIDE DEF o
<1>2. /\ e.function = d.function /\ e.rounds = d.rounds /\ e.raised /\ e.have = d.have
         /\ e.freed = d.freed
  BY <1>1, NowFacts, NowFactsNext
<1>3. e.wrong => d.wrong \/ (o.do = "use" /\ o.r \notin d.have)
  BY <1>1, NowFacts, NowFactsNext DEF Native!TypeOK
<1> HIDE DEF d, e
<1>4. Fails(o, d, e)
  BY <1>1, <1>2, <1>3 DEF Fails
<1>5. QED
  BY <1>1, <1>4 DEF o, d, e

\* Every step of the model is one of the machine.
LEMMA NextLeads ==
  ASSUME Native!TypeOK, Native!TypeOK', function # "none", Native!Next
  PROVE  Leads(frames, Now, frames', Now') /\ function' = function
<1> DEFINE d == Now
           e == Now'
           o == Head(frames[1].rest)
           after == Tail(frames[1].rest)
<1>1. function' = function
  BY DEF Native!Next, Native!Raise, Native!Succeed, Native!Obtain, Native!NotFound, Native!Apply,
       Native!Release, Native!Forget, Native!Enter, Native!Choose, Native!Again, Native!Enough,
       Native!Exit
<1>2. e \in NativeData
  <2>1. function' # "none"
    BY <1>1
  <2>2. QED
    BY <2>1 DEF Native!TypeOK, Now, NativeData
<1>3. CASE \/ Native!Succeed \/ Native!Obtain \/ Native!NotFound
           \/ Native!Apply \/ Native!Release \/ Native!Forget
  <2>1. Done(o, d, e) /\ frames' = Put(frames, after) /\ frames # <<>> /\ frames[1].rest # <<>>
    BY <1>3, DoneNow DEF Native!Op, Native!Top, Native!Running
  <2> HIDE DEF o, d, e, after
  <2>2. Leads(frames, d, frames', e)
    BY <1>2, <2>1 DEF Leads, o, after
  <2>3. QED
    BY <1>1, <2>2 DEF d, e
<1>4. CASE Native!Raise
  <2>1. Fails(o, d, e) /\ frames' = Native!Out(frames) /\ frames # <<>> /\ frames[1].rest # <<>>
    BY <1>4, FailsNow DEF Native!Op, Native!Top, Native!Running
  <2> HIDE DEF o, d, e, after
  <2>2. Leads(frames, d, frames', e)
    BY <1>2, <2>1 DEF Leads, o, after
  <2>3. QED
    BY <1>1, <2>2 DEF d, e
<1>5. CASE Native!Enter \/ Native!Choose \/ Native!Again \/ Native!Enough
  <2>1. frames # <<>> /\ frames[1].rest # <<>>
    BY <1>5 DEF Native!Enter, Native!Choose, Native!Again, Native!Enough, Native!Doing,
         Native!Running, Native!Top
  <2>2. SameHeld(d, e)
    BY <1>5, NowFacts, NowFactsNext DEF SameHeld, Native!Enter, Native!Choose, Native!Again,
         Native!Enough
  <2>3. ~ Native!Again => Quiet(d, e)
    BY <1>5, <2>2, NowFacts, NowFactsNext DEF Quiet, Native!Enter, Native!Choose, Native!Enough
  <2>4. Native!Again => d.rounds < MaxRounds /\ e.rounds = d.rounds + 1
    BY NowFacts, NowFactsNext DEF Native!Again
  <2>5. \/ /\ ~ Native!Again /\ o.do = "try"




                       /\ frames' = <<Trying(o.body, o.final),
                                      [frames[1] EXCEPT !.rest = after]>> \o Tail(frames)
        \/ ~ Native!Again /\ o.do = "either"
           /\ frames' \in {Put(frames, o.this \o after), Put(frames, o.other \o after)}
        \/ Native!Again /\ o.do = "many" /\ frames' = Put(frames, o.body \o frames[1].rest)
        \/ ~ Native!Again /\ o.do = "many" /\ frames' = Put(frames, after)
    <3>1. CASE Native!Enter
      BY <3>1 DEF Native!Enter, Native!Again, Native!Doing, Native!Op, Native!Top, Trying, Frame
    <3>2. CASE Native!Choose
      BY <3>2 DEF Native!Choose, Native!Again, Native!Doing, Native!Op, Native!Top, Put,
           Native!Continue
    <3>3. CASE Native!Again
      BY <3>3 DEF Native!Again, Native!Doing, Native!Op, Native!Top, Put, Native!Continue
    <3>4. CASE Native!Enough /\ ~ Native!Again
      BY <3>4 DEF Native!Enough, Native!Doing, Native!Op, Native!Top, Put, Native!Continue,
           Native!Proceed
    <3>5. QED
      BY <1>5, <3>1, <3>2, <3>3, <3>4
  <2> HIDE DEF o, d, e, after
  <2>6. Leads(frames, d, frames', e)
    BY <1>2, <2>1, <2>2, <2>3, <2>4, <2>5 DEF Leads, o, after
  <2>7. QED
    BY <1>1, <2>6 DEF d, e
<1>6. CASE Native!Exit
  <2>1. frames # <<>> /\ frames[1].rest = <<>>
    BY <1>6 DEF Native!Exit, Native!Top
  <2>2. Quiet(d, e)
    BY <1>6, NowFacts, NowFactsNext DEF Native!Exit, Quiet, SameHeld
  <2>3. frames' = IF frames[1].final # <<>> THEN Push(Trying(frames[1].final, <<>>), Tail(frames))
                  ELSE IF frames[1].raising THEN Native!Out(Tail(frames)) ELSE Tail(frames)
    BY <1>6 DEF Native!Exit, Native!Top, Push, Trying, Frame
  <2> HIDE DEF d, e
  <2>4. Leads(frames, d, frames', e)
    BY <1>2, <2>1, <2>2, <2>3 DEF Leads
  <2>5. QED
    BY <1>1, <2>4 DEF d, e
<1>7. QED
  BY <1>3, <1>4, <1>5, <1>6 DEF Native!Next

\* The inductive invariant: no run from the blocks that remain meets a bad state.
NativeInv ==
  /\ function = "none" => /\ frames = <<>> /\ ~ wrong /\ ~ raised /\ rounds = 0
  /\ function # "none" => Safe(frames, Now)

\* The call of a function establishes it.
LEMMA BeginNativeInv ==
  ASSUME NativeInv, Native!TypeOK, Native!TypeOK', Native!Begin
  PROVE  NativeInv'
<1>1. PICK f \in Functions :
        /\ function' = f /\ frames' = <<[rest |-> Native!Body[f], final |-> <<>>,
                                         raising |-> FALSE]>>
        /\ held' = [r \in Native!Resources |->
                      IF f = "delete_certificate_from_store"
                      /\ r = "stored certificate" THEN "live" ELSE "none"]
        /\ function = "none" /\ UNCHANGED <<wrong, raised, rounds>>
  BY DEF Native!Begin
<1>2. f \in DOMAIN Native!Body /\ f # "none"
  BY NativeAssumption DEF Native!Body
<1>3. Now' \in NativeData
  BY <1>1, <1>2 DEF Native!TypeOK, Now, NativeData
<1>4. Now' \in Holds(f, "any", {}, Begun(f), {})
  <2>0. ~ wrong'
    BY <1>1 DEF NativeInv
  <2>1. ~ Now'.wrong /\ Now'.function = f
    BY <1>1, <2>0, NowFactsNext
  <2>2. Now'.have \subseteq Begun(f) /\ Now'.freed = {}
    BY <1>1, NowFactsNext DEF Begun
  <2> DEFINE e == Now'
  <2> HIDE DEF e
  <2>3. e \in Holds(f, "any", {}, Begun(f), {})
    BY <1>3, <2>1, <2>2 DEF Holds, Fine, e
  <2>4. QED
    BY <2>3 DEF e
<1>5. Safe(<<Frame(Native!Body[f], <<>>, FALSE)>>, Now')
  BY <1>2, <1>4, EveryCall
<1>6. Safe(frames', Now')
  BY <1>1, <1>5 DEF Frame
<1>7. QED
  BY <1>1, <1>2, <1>6 DEF NativeInv

\* The steps of the function keep it.
LEMMA NextNativeInv ==
  ASSUME NativeInv, Native!TypeOK, Native!TypeOK', Native!Next
  PROVE  NativeInv'
<1>1. frames # <<>>
  BY DEF Native!Next, Native!Raise, Native!Succeed, Native!Obtain, Native!NotFound, Native!Apply,
       Native!Release, Native!Forget, Native!Enter, Native!Choose, Native!Again, Native!Enough,
       Native!Exit,
     Native!Doing, Native!Running
<1>2. function # "none" /\ Safe(frames, Now)
  BY <1>1 DEF NativeInv
<1>3. Leads(frames, Now, frames', Now') /\ function' = function
  BY <1>2, NextLeads
<1>4. Safe(frames', Now')
  BY <1>2, <1>3, SafeNext
<1>5. QED
  BY <1>2, <1>3, <1>4 DEF NativeInv

\* And it says what the property says.
LEMMA NativeInvNothingLeft ==
  ASSUME NativeInv, Native!TypeOK
  PROVE  Native!NothingLeft
<1>1. CASE function = "none"
  BY <1>1 DEF NativeInv, Native!NothingLeft, Native!Over
<1>2. CASE function # "none"
  <2>1. Fine(Now) /\ (frames = <<>> => GivenBack(Now))
    BY <1>2, SafeIsFine DEF NativeInv
  <2>2. wrong => Native!FreedTwice(function, raised)
    BY <2>1, NowFacts DEF Fine
  <2>3. Native!Left \subseteq Now.have
    BY NowFacts DEF Native!Left
  <2>4. frames = <<>> =>
          Native!Left \subseteq Native!Kept(function)
                             \cup (IF raised THEN Native!KeptByException(function) ELSE {})
    BY <2>1, <2>3, NowFacts DEF GivenBack
  <2>5. QED
    BY <1>2, <2>2, <2>4 DEF Native!NothingLeft, Native!Over
<1>3. QED
  BY <1>1, <1>2

-----------------------------------------------------------------------------
LEMMA InitNativeInv == Init => Native!TypeOK /\ NativeInv
BY InitServicesTypeInv DEF ServicesTypeInv, NativeInv, Init, Native!Init

\* No step but those of a function changes its variables.
LEMMA KeepNativeInv ==
  ASSUME NativeInv, Native!TypeOK, [Next]_vars
  PROVE  NativeInv'
<1>1. CASE UNCHANGED nativeVars
  <2>1. UNCHANGED <<function, frames, held, wrong, raised, rounds>>
    BY <1>1 DEF nativeVars
  <2>2. Now' = Now
    BY <2>1 DEF Now
  <2>3. QED
    BY <2>1, <2>2 DEF NativeInv
<1>2. CASE CallNative \/ RunNative
  BY <1>2, NextNative, BeginNativeInv, NextNativeInv DEF CallNative, RunNative
<1>3. QED
  BY <1>1, <1>2
  DEF vars, Next, Own, Hang, Start, TryService, NoService, NotMade, SearchDrive, DriveFound,
      DriveNotFound, SearchAzure, AzureOver, Read, LoadOver, Ask, RunAzure, Cleanup, Publish, Move

\* Whatever a native function calls raises, and however often its loops go round, nothing is
\* freed twice and nothing is left when it is over, but for what the code is known to.
THEOREM NativeIsGivenBack == Spec => []NothingLeft
<1>1. Native!TypeOK /\ NativeInv /\ [Next]_vars => (Native!TypeOK /\ NativeInv)'
  BY NextNative, KeepNativeInv
<1>2. Native!TypeOK /\ NativeInv => NothingLeft
  BY NativeInvNothingLeft DEF NothingLeft
<1>3. QED
  BY <1>1, <1>2, InitNativeInv, PTL DEF Spec

=============================================================================
