-------------------------- MODULE MessageQueueProofs --------------------------
(***************************************************************************)
(* Proofs about MessageQueue, for any set of readers, any number of chunks *)
(* and any number of messages.                                             *)
(***************************************************************************)
EXTENDS MessageQueue, Integers, TLAPS

\* Messages whose chunk the reader has given back.
Marked(r) == got[r] + (IF rpc[r] = "recv" THEN 1 ELSE 0)

\* The chunk that is d chunks behind the writer's.
Behind(d) == IF d <= widx THEN widx - d ELSE widx + MaxChunks - d

\* The chunk of message n, and the messages that are in the ring: the last
\* MaxChunks, without the oldest once the writer has taken its chunk.
ChunkOf(n) == Behind(published + 1 - n)
InRing(n) ==
    /\ n \in 1 .. published
    /\ \/ published < n + MaxChunks - 1
       \/ published = n + MaxChunks - 1 /\ written[widx]

Types ==
    /\ written \in [Chunks -> BOOLEAN]
    /\ readBy \in [Chunks -> SUBSET Readers]
    /\ data \in [Chunks -> Nat]
    /\ large \in SUBSET Nat
    /\ socket \in [Readers -> Seq(Nat)]
    /\ pinged \in SUBSET Readers
    /\ published \in Nat
    /\ wpc \in {"idle", "acquire", "fill", "clear", "send", "notify", "failed"}
    /\ widx \in Chunks
    /\ rpc \in [Readers -> {"idle", "flag", "poll", "woken", "read", "mark", "recv", "stopped"}]
    /\ ridx \in [Readers -> Chunks]
    /\ rflag \in [Readers -> BOOLEAN]
    /\ copy \in [Readers -> Nat]
    /\ shutdown \in [Readers -> {"no", "set", "sent"}]
    /\ got \in [Readers -> Nat]
    /\ ret \in [Readers -> Nat]
    /\ lost \in SUBSET Readers

\* The flags and the contents of the ring, and how far everybody is.
RingInv ==
    /\ published < MaxChunks => widx = published
    /\ \A r \in Readers :
          /\ ridx[r] = Behind(published - Marked(r))
          /\ Marked(r) <= published
          /\ published <= Marked(r) + MaxChunks
          /\ ~written[widx] => published < Marked(r) + MaxChunks
    /\ \A n \in Nat : InRing(n) =>
          /\ written[ChunkOf(n)]
          /\ data[ChunkOf(n)] = n
          /\ readBy[ChunkOf(n)] = {r \in Readers : Marked(r) >= n}
    /\ \A c \in Chunks : c >= published => ~written[c]
    /\ wpc \in {"fill", "clear"} => ~written[widx]
    /\ wpc = "clear" => data[widx] = published + 1

\* What a reader knows inside dequeue.
LocalInv ==
    \A r \in Readers :
        /\ rpc[r] = "flag" /\ ~rflag[r] /\ written[ridx[r]] => Marked(r) < published
        /\ rpc[r] \in {"read", "mark"} => Marked(r) < published
        /\ rpc[r] = "mark" => copy[r] = Marked(r) + 1
        /\ rpc[r] = "recv" => Marked(r) \in large

\* A reader that will sleep, or sleeps, behind the writer is notified.
WakeInv ==
    \A r \in Readers :
        rpc[r] = "poll" \/ (rpc[r] = "flag" /\ rflag[r]) =>
            Marked(r) >= published \/ r \in pinged \/ wpc \in {"send", "notify", "failed"}

\* Messages up to this one were sent on the sockets, if they are large.
SentUpTo == IF wpc \in {"send", "failed"} THEN published - 1 ELSE published

\* The socket s of a reader that has g messages holds, in order, exactly the
\* members of L that the reader does not have, up to u.
Pending(s, g, L, u) ==
    /\ g <= u
    /\ \A i \in 1 .. Len(s) : s[i] \in L /\ g < s[i] /\ s[i] + (Len(s) - i) <= u
    /\ \A i, j \in 1 .. Len(s) : i < j => s[i] < s[j]
    /\ \A n \in L : g < n /\ n <= u => \E i \in 1 .. Len(s) : s[i] = n

\* What is on the sockets.
SocketInv ==
    /\ wpc \in {"send", "failed"} => published \in large /\ published > 0
    /\ \A r \in Readers : \A i \in 1 .. Len(socket[r]) : socket[r][i] \in 1 .. published
    /\ \A r \in Readers \ lost : Pending(socket[r], got[r], large, SentUpTo)

IInv == Types /\ RingInv /\ LocalInv /\ WakeInv /\ SocketInv
-------------------------------------------------------------------------------
(* Functions and sequences *)

\* Setting a flag to whether a is in A keeps the type of the flags.
LEMMA FlagUpdate ==
    ASSUME NEW S, NEW f \in [S -> BOOLEAN], NEW x \in S, NEW a, NEW A
    PROVE  [f EXCEPT ![x] = a \in A] \in [S -> BOOLEAN]
OBVIOUS

\* Where the elements of a tail are in the sequence.
LEMMA TailElement ==
    ASSUME NEW s \in Seq(Nat), s # <<>>, NEW i \in 1 .. Len(Tail(s))
    PROVE  i + 1 \in 1 .. Len(s) /\ Tail(s)[i] = s[i + 1]
<1>1. Len(s) \in Nat /\ Len(Tail(s)) = Len(s) - 1
  OBVIOUS
<1>2. i \in 1 .. Len(s) - 1
  BY <1>1
<1>3. Tail(s)[i] = s[i + 1]
  BY <1>2
<1>4. i + 1 \in 1 .. Len(s)
  BY <1>1, <1>2
<1> QED BY <1>3, <1>4, Zenon
-------------------------------------------------------------------------------
(* The ring *)

\* Advancing an index wraps around at the end of the ring.
LEMMA NextChunkFacts ==
    ASSUME NEW i \in Chunks
    PROVE  /\ NextChunk(i) = IF i + 1 = MaxChunks THEN 0 ELSE i + 1
           /\ NextChunk(i) \in Chunks
<1>1. MaxChunks \in Nat /\ MaxChunks > 0 /\ i \in Nat /\ i < MaxChunks
  BY QueueAssumption DEF Chunks
<1>2. CASE i + 1 < MaxChunks
  <2>1. (i + 1) % MaxChunks = i + 1
    BY <1>1, <1>2
  <2> QED BY <1>1, <1>2, <2>1 DEF NextChunk, Chunks
<1>3. CASE i + 1 = MaxChunks
  <2>1. (i + 1) % MaxChunks = 0
    BY <1>1, <1>3
  <2> QED BY <1>1, <1>3, <2>1 DEF NextChunk, Chunks
<1> QED BY <1>1, <1>2, <1>3

\* Counting back less than a ring from an index gives another chunk.
LEMMA BehindFacts ==
    ASSUME widx \in Chunks
    PROVE  /\ \A d \in 0 .. MaxChunks : Behind(d) \in Chunks
           /\ Behind(0) = widx /\ Behind(MaxChunks) = widx
           /\ \A d \in 1 .. MaxChunks - 1 : Behind(d) # widx
           /\ \A d, e \in 1 .. MaxChunks : Behind(d) = Behind(e) => d = e
BY QueueAssumption DEF Behind, Chunks

\* When the writer advances, everything else is one chunk further behind.
LEMMA BehindNext ==
    ASSUME widx \in Chunks, widx' = NextChunk(widx)
    PROVE  \A d \in 0 .. MaxChunks - 1 : Behind(d + 1)' = Behind(d)
<1>1. widx' = IF widx + 1 = MaxChunks THEN 0 ELSE widx + 1
  BY NextChunkFacts
<1>2. MaxChunks \in Nat /\ widx \in Nat /\ widx < MaxChunks
  BY QueueAssumption DEF Chunks
<1> QED BY <1>1, <1>2 DEF Behind

\* When a reader advances, it is one chunk closer to the writer.
LEMMA BehindReader ==
    ASSUME widx \in Chunks
    PROVE  \A d \in 1 .. MaxChunks : NextChunk(Behind(d)) = Behind(d - 1)
<1> SUFFICES ASSUME NEW d \in 1 .. MaxChunks
             PROVE  NextChunk(Behind(d)) = Behind(d - 1)
  OBVIOUS
<1>1. MaxChunks \in Nat /\ widx \in Nat /\ widx < MaxChunks
  BY QueueAssumption DEF Chunks
<1>2. Behind(d) \in Chunks
  BY <1>1 DEF Behind, Chunks
<1>3. NextChunk(Behind(d)) = IF Behind(d) + 1 = MaxChunks THEN 0 ELSE Behind(d) + 1
  BY <1>2, NextChunkFacts
<1> QED BY <1>1, <1>3 DEF Behind

\* Types of what the ring is described by.
LEMMA Numbers ==
    ASSUME Types
    PROVE  /\ MaxChunks \in Nat /\ MaxChunks > 0 /\ published \in Nat
           /\ widx \in Nat /\ widx < MaxChunks /\ widx \in Chunks
           /\ \A r \in Readers : got[r] \in Nat /\ Marked(r) \in Nat /\ got[r] <= Marked(r)
                                  /\ Marked(r) <= got[r] + 1
<1>1. MaxChunks \in Nat /\ MaxChunks > 0
  BY QueueAssumption
<1>2. published \in Nat /\ widx \in Chunks
  BY DEF Types
<1>3. widx \in Nat /\ widx < MaxChunks
  BY <1>1, <1>2 DEF Chunks
<1>4. \A r \in Readers : got[r] \in Nat
  BY DEF Types
<1> QED BY <1>1, <1>2, <1>3, <1>4 DEF Marked

\* How far a reader is.
LEMMA ReaderFacts ==
    ASSUME Types, RingInv, NEW r \in Readers
    PROVE  /\ MaxChunks \in Nat /\ published \in Nat /\ got[r] \in Nat /\ Marked(r) \in Nat
           /\ got[r] <= Marked(r) /\ Marked(r) <= got[r] + 1
           /\ Marked(r) <= published /\ published <= Marked(r) + MaxChunks
           /\ ~written[widx] => published < Marked(r) + MaxChunks
           /\ ridx[r] = Behind(published - Marked(r))
           /\ rpc[r] = "recv" => Marked(r) = got[r] + 1
           /\ rpc[r] # "recv" => Marked(r) = got[r]
<1>1. /\ MaxChunks \in Nat /\ published \in Nat /\ got[r] \in Nat /\ Marked(r) \in Nat
      /\ got[r] <= Marked(r) /\ Marked(r) <= got[r] + 1
  BY Numbers
<1>2. /\ Marked(r) <= published /\ published <= Marked(r) + MaxChunks
      /\ ~written[widx] => published < Marked(r) + MaxChunks
      /\ ridx[r] = Behind(published - Marked(r))
  BY DEF RingInv
<1>3. rpc[r] = "recv" => Marked(r) = got[r] + 1
  BY Zenon DEF Marked
<1>4. rpc[r] # "recv" => Marked(r) = got[r] + 0
  BY Zenon DEF Marked
<1>5. got[r] + 0 = got[r]
  BY <1>1
<1> QED BY <1>1, <1>2, <1>3, <1>4, <1>5

\* The chunks of the messages in the ring are chunks, are not the writer's once
\* it has taken one, and are all different.
LEMMA RingChunks ==
    ASSUME Types
    PROVE  /\ \A n \in Nat : InRing(n) => ChunkOf(n) \in Chunks
           /\ \A n \in Nat : InRing(n) /\ (~written[widx] \/ published < n + MaxChunks - 1) =>
                 ChunkOf(n) # widx
           /\ \A n, k \in Nat : InRing(n) /\ InRing(k) /\ ChunkOf(n) = ChunkOf(k) => n = k
<1>1. /\ MaxChunks \in Nat /\ MaxChunks > 0 /\ published \in Nat /\ widx \in Chunks
  BY Numbers
<1>2. \A n \in Nat : InRing(n) => published + 1 - n \in 1 .. MaxChunks
  BY <1>1 DEF InRing
<1>3. \A n \in Nat : InRing(n) => ChunkOf(n) \in Chunks
  <2> SUFFICES ASSUME NEW n \in Nat, InRing(n)
               PROVE  ChunkOf(n) \in Chunks
    OBVIOUS
  <2>1. published + 1 - n \in 0 .. MaxChunks
    BY <1>1, <1>2
  <2> QED BY <1>1, <2>1, BehindFacts DEF ChunkOf
<1>4. \A n \in Nat : InRing(n) /\ (~written[widx] \/ published < n + MaxChunks - 1) =>
         ChunkOf(n) # widx
  <2> SUFFICES ASSUME NEW n \in Nat, InRing(n),
                      ~written[widx] \/ published < n + MaxChunks - 1
               PROVE  ChunkOf(n) # widx
    OBVIOUS
  <2>1. published + 1 - n \in 1 .. MaxChunks - 1
    BY <1>1 DEF InRing
  <2> QED BY <1>1, <2>1, BehindFacts DEF ChunkOf
<1>5. ASSUME NEW n \in Nat, NEW k \in Nat, InRing(n), InRing(k), ChunkOf(n) = ChunkOf(k)
      PROVE  n = k
  <2>1. published + 1 - n \in 1 .. MaxChunks /\ published + 1 - k \in 1 .. MaxChunks
    BY <1>2, <1>5
  <2>2. published + 1 - n = published + 1 - k
    BY <1>1, <1>5, <2>1, BehindFacts DEF ChunkOf
  <2> QED BY <1>1, <2>2
<1> QED BY <1>3, <1>4, <1>5

\* The next message of a reader that is behind is in the ring, in the chunk the
\* reader looks at.
LEMMA NextInRing ==
    ASSUME Types, RingInv, NEW r \in Readers, Marked(r) < published
    PROVE  /\ Marked(r) + 1 \in Nat /\ InRing(Marked(r) + 1)
           /\ ChunkOf(Marked(r) + 1) = ridx[r]
<1>1. /\ MaxChunks \in Nat /\ MaxChunks > 0 /\ published \in Nat /\ Marked(r) \in Nat
  BY Numbers
<1>2. /\ ridx[r] = Behind(published - Marked(r))
      /\ published <= Marked(r) + MaxChunks
      /\ ~written[widx] => published < Marked(r) + MaxChunks
  BY DEF RingInv
<1>3. InRing(Marked(r) + 1)
  BY <1>1, <1>2 DEF InRing
<1>4. published + 1 - (Marked(r) + 1) = published - Marked(r)
  BY <1>1
<1> QED BY <1>1, <1>2, <1>3, <1>4 DEF ChunkOf

\* The two flags tell a reader exactly whether it is behind.
LEMMA FlagsTell ==
    ASSUME Types, RingInv, NEW r \in Readers
    PROVE  written[ridx[r]] /\ r \notin readBy[ridx[r]] <=> Marked(r) < published
<1>1. /\ MaxChunks \in Nat /\ MaxChunks > 0 /\ published \in Nat /\ Marked(r) \in Nat
      /\ widx \in Chunks /\ widx < MaxChunks /\ widx \in Nat
  BY Numbers
<1>2. /\ ridx[r] = Behind(published - Marked(r)) /\ Marked(r) <= published
      /\ \A n \in Nat : InRing(n) =>
            /\ written[ChunkOf(n)]
            /\ readBy[ChunkOf(n)] = {q \in Readers : Marked(q) >= n}
      /\ \A c \in Chunks : c >= published => ~written[c]
      /\ published < MaxChunks => widx = published
  BY DEF RingInv
<1>3. CASE Marked(r) < published
  <2>1. /\ Marked(r) + 1 \in Nat /\ InRing(Marked(r) + 1)
        /\ ChunkOf(Marked(r) + 1) = ridx[r]
    BY <1>3, NextInRing
  <2>2. written[ridx[r]] /\ readBy[ridx[r]] = {q \in Readers : Marked(q) >= Marked(r) + 1}
    BY <1>2, <2>1
  <2>3. ~(Marked(r) >= Marked(r) + 1)
    BY <1>1
  <2> QED BY <1>3, <2>2, <2>3
<1>4. CASE Marked(r) = published
  <2>1. ridx[r] = widx
    <3>1. published - Marked(r) = 0
      BY <1>1, <1>4
    <3> QED BY <1>1, <1>2, <3>1, BehindFacts
  <2>2. ASSUME written[widx] PROVE r \in readBy[widx]
    <3>1. published >= MaxChunks
      BY <1>1, <1>2, <2>2
    <3> DEFINE n == published + 1 - MaxChunks
    <3>2. n \in Nat /\ InRing(n) /\ n <= Marked(r) /\ published + 1 - n = MaxChunks
      BY <1>1, <1>4, <2>2, <3>1 DEF InRing
    <3> HIDE DEF n
    <3>3. ChunkOf(n) = widx
      BY <1>1, <3>2, BehindFacts DEF ChunkOf
    <3>4. readBy[widx] = {q \in Readers : Marked(q) >= n}
      BY <1>2, <3>2, <3>3
    <3>5. Marked(r) >= n
      BY <1>1, <3>2
    <3> QED BY <3>4, <3>5
  <2>3. ~(Marked(r) < published)
    BY <1>1, <1>4
  <2> QED BY <2>1, <2>2, <2>3
<1> QED BY <1>1, <1>2, <1>3, <1>4

-------------------------------------------------------------------------------
(* What steps leave as it is *)

\* The ring is described as before when indices, written flags and progress are
\* the same and only a chunk that the writer has taken is touched.
LEMMA RingStable ==
    ASSUME Types, RingInv, UNCHANGED <<written, published, widx, ridx>>,
           \A r \in Readers : Marked(r)' = Marked(r),
           \A c \in Chunks : (c # widx \/ written[widx]) =>
               data'[c] = data[c] /\ readBy'[c] = readBy[c],
           wpc' \in {"fill", "clear"} => ~written[widx],
           wpc' = "clear" => data'[widx] = published + 1
    PROVE  RingInv'
<1>1. \A n \in Nat : InRing(n)' = InRing(n) /\ ChunkOf(n)' = ChunkOf(n)
  BY DEF InRing, ChunkOf, Behind
<1>2. \A n \in Nat : InRing(n) =>
         data'[ChunkOf(n)] = data[ChunkOf(n)] /\ readBy'[ChunkOf(n)] = readBy[ChunkOf(n)]
  BY RingChunks
<1>3. \A n \in Nat : InRing(n)' =>
         /\ written'[ChunkOf(n)']
         /\ data'[ChunkOf(n)'] = n
         /\ readBy'[ChunkOf(n)'] = {r \in Readers : Marked(r)' >= n}
  <2> SUFFICES ASSUME NEW n \in Nat, InRing(n)
               PROVE  /\ written[ChunkOf(n)]
                      /\ data'[ChunkOf(n)] = n
                      /\ readBy'[ChunkOf(n)] = {r \in Readers : Marked(r)' >= n}
    BY <1>1
  <2>1. /\ written[ChunkOf(n)] /\ data[ChunkOf(n)] = n
        /\ readBy[ChunkOf(n)] = {r \in Readers : Marked(r) >= n}
    BY DEF RingInv
  <2>2. {r \in Readers : Marked(r)' >= n} = {r \in Readers : Marked(r) >= n}
    OBVIOUS
  <2> QED BY <1>2, <2>1, <2>2
<1>4. \A r \in Readers :
         /\ ridx'[r] = Behind(published - Marked(r))'
         /\ Marked(r)' <= published'
         /\ published' <= Marked(r)' + MaxChunks
         /\ ~written'[widx'] => published' < Marked(r)' + MaxChunks
  BY DEF RingInv, Behind
<1>5. /\ published' < MaxChunks => widx' = published'
      /\ \A c \in Chunks : c >= published' => ~written'[c]
  BY DEF RingInv
<1> QED BY <1>3, <1>4, <1>5 DEF RingInv

\* A step of the writer leaves what the readers know, when messages are only
\* added.
LEMMA WriterLocal ==
    ASSUME Types, RingInv, LocalInv, UNCHANGED <<rpc, ridx, rflag, copy, got>>,
           published' \in Nat, published <= published',
           \A r \in Readers : written'[ridx[r]] /\ ~written[ridx[r]] => Marked(r) < published',
           \A n \in 1 .. published : n \in large => n \in large'
    PROVE  LocalInv'
<1> SUFFICES ASSUME NEW r \in Readers
             PROVE  /\ rpc[r] = "flag" /\ ~rflag[r] /\ written'[ridx[r]] => Marked(r) < published'
                    /\ rpc[r] \in {"read", "mark"} => Marked(r) < published'
                    /\ rpc[r] = "mark" => copy[r] = Marked(r) + 1
                    /\ rpc[r] = "recv" => Marked(r) \in large'
  BY DEF LocalInv, Marked
<1>1. published \in Nat /\ Marked(r) \in Nat /\ Marked(r) <= published
  BY Numbers DEF RingInv
<1>2. /\ rpc[r] = "flag" /\ ~rflag[r] /\ written[ridx[r]] => Marked(r) < published
      /\ rpc[r] \in {"read", "mark"} => Marked(r) < published
      /\ rpc[r] = "mark" => copy[r] = Marked(r) + 1
      /\ rpc[r] = "recv" => Marked(r) \in large
  BY DEF LocalInv
<1>3. rpc[r] = "recv" => Marked(r) \in 1 .. published
  BY <1>1, Numbers DEF Marked
<1>4. \A k \in Nat : k < published => k < published'
  BY <1>1
<1> QED BY <1>1, <1>2, <1>3, <1>4

\* A step of the writer leaves no reader asleep that should be woken.
LEMMA WriterWake ==
    ASSUME WakeInv, UNCHANGED <<rpc, rflag, got>>, pinged \subseteq pinged',
           \/ wpc' \in {"send", "notify", "failed"}
           \/ pinged' = Readers
           \/ published' = published /\ wpc \notin {"send", "notify", "failed"}
    PROVE  WakeInv'
<1>1. \A r \in Readers : Marked(r)' = Marked(r)
  BY DEF Marked
<1> QED BY <1>1 DEF WakeInv

\* What was sent is a number of messages.
LEMMA SentIsNat ==
    ASSUME Types, SocketInv
    PROVE  SentUpTo \in Nat /\ SentUpTo <= published
<1>1. published \in Nat /\ (wpc \in {"send", "failed"} => published > 0)
  BY DEF Types, SocketInv
<1>2. CASE wpc \in {"send", "failed"}
  <2>1. SentUpTo = published - 1 /\ published > 0
    BY <1>1, <1>2 DEF SentUpTo
  <2> QED BY <1>1, <2>1
<1>3. CASE wpc \notin {"send", "failed"}
  BY <1>1, <1>3 DEF SentUpTo
<1> QED BY <1>2, <1>3

\* What is pending does not depend on messages that are not sent yet.
LEMMA PendingSame ==
    ASSUME NEW s \in Seq(Nat), NEW g \in Nat, NEW u \in Nat, NEW v \in Nat,
           NEW L \in SUBSET Nat, NEW K \in SUBSET Nat, Pending(s, g, L, u), u <= v,
           \A n \in 1 .. u : n \in L <=> n \in K,
           \A n \in K : n <= v => n <= u
    PROVE  Pending(s, g, K, v)
<1>1. Len(s) \in Nat /\ \A i \in 1 .. Len(s) : s[i] \in Nat
  OBVIOUS
<1>2. g <= u /\ g <= v
  BY DEF Pending
<1>3. ASSUME NEW i \in 1 .. Len(s)
      PROVE  s[i] \in K /\ g < s[i] /\ s[i] + (Len(s) - i) <= v
  <2>1. s[i] \in L /\ g < s[i] /\ s[i] + (Len(s) - i) <= u
    BY DEF Pending
  <2>2. s[i] \in 1 .. u
    BY <1>1, <2>1
  <2> QED BY <1>1, <2>1, <2>2
<1>4. \A i, j \in 1 .. Len(s) : i < j => s[i] < s[j]
  BY DEF Pending
<1>5. ASSUME NEW n \in K, g < n, n <= v
      PROVE  \E i \in 1 .. Len(s) : s[i] = n
  <2>1. n \in 1 .. u
    BY <1>5
  <2>2. n \in L /\ n <= u
    BY <2>1
  <2> QED BY <1>5, <2>2 DEF Pending
<1> QED BY <1>2, <1>3, <1>4, <1>5 DEF Pending

\* Sending the next large message.
LEMMA PendingAppend ==
    ASSUME NEW s \in Seq(Nat), NEW g \in Nat, NEW p \in Nat, NEW L \in SUBSET Nat,
           p > 0, p \in L, Pending(s, g, L, p - 1)
    PROVE  Pending(Append(s, p), g, L, p)
<1> DEFINE t == Append(s, p)
<1>1. /\ Len(s) \in Nat /\ Len(t) = Len(s) + 1 /\ t[Len(s) + 1] = p
      /\ \A i \in 1 .. Len(s) : t[i] = s[i] /\ s[i] \in Nat
  OBVIOUS
<1> HIDE DEF t
<1>2. /\ g <= p - 1
      /\ \A i \in 1 .. Len(s) : s[i] \in L /\ g < s[i] /\ s[i] + (Len(s) - i) <= p - 1
      /\ \A i, j \in 1 .. Len(s) : i < j => s[i] < s[j]
      /\ \A n \in L : g < n /\ n <= p - 1 => \E i \in 1 .. Len(s) : s[i] = n
  BY DEF Pending
<1>3. ASSUME NEW i \in 1 .. Len(t)
      PROVE  t[i] \in L /\ g < t[i] /\ t[i] + (Len(t) - i) <= p
  <2>1. CASE i = Len(s) + 1
    BY <1>1, <1>2, <2>1
  <2>2. CASE i \in 1 .. Len(s)
    <3>1. t[i] = s[i] /\ s[i] \in L /\ g < s[i] /\ s[i] + (Len(s) - i) <= p - 1
      BY <1>1, <1>2, <2>2
    <3>2. s[i] \in Nat /\ i \in Nat /\ Len(s) \in Nat /\ Len(t) = Len(s) + 1
      BY <1>1, <2>2
    <3> QED BY <3>1, <3>2
  <2> QED BY <1>1, <2>1, <2>2
<1>4. ASSUME NEW i \in 1 .. Len(t), NEW j \in 1 .. Len(t), i < j
      PROVE  t[i] < t[j]
  <2>1. i \in 1 .. Len(s)
    BY <1>1, <1>4
  <2>2. CASE j = Len(s) + 1
    <3>1. t[i] = s[i] /\ s[i] \in Nat /\ s[i] + (Len(s) - i) <= p - 1 /\ t[j] = p
      BY <1>1, <1>2, <2>1, <2>2
    <3> QED BY <1>1, <2>1, <3>1
  <2>3. CASE j \in 1 .. Len(s)
    <3>1. s[i] < s[j]
      BY <1>2, <1>4, <2>1, <2>3
    <3> QED BY <1>1, <2>1, <2>3, <3>1
  <2>4. j = Len(s) + 1 \/ j \in 1 .. Len(s)
    <3>1. Len(t) = Len(s) + 1 /\ Len(s) \in Nat
      BY <1>1
    <3> QED BY <3>1
  <2> QED BY <2>2, <2>3, <2>4
<1>5. ASSUME NEW n \in L, g < n, n <= p
      PROVE  \E i \in 1 .. Len(t) : t[i] = n
  <2>1. CASE n = p
    <3>1. Len(s) + 1 \in 1 .. Len(t)
      BY <1>1
    <3> QED BY <1>1, <2>1, <3>1
  <2>2. CASE n <= p - 1
    <3>1. PICK i \in 1 .. Len(s) : s[i] = n
      BY <1>2, <1>5, <2>2
    <3>2. i \in 1 .. Len(t) /\ t[i] = n
      BY <1>1, <3>1
    <3> QED BY <3>2
  <2> QED BY <1>5, <2>1, <2>2
<1>6. g <= p
  BY <1>2
<1>7. Pending(t, g, L, p)
  BY <1>3, <1>4, <1>5, <1>6 DEF Pending
<1> QED BY <1>7 DEF t

\* A reader that waits for a large message finds that one first.
LEMMA PendingHead ==
    ASSUME NEW s \in Seq(Nat), NEW g \in Nat, NEW u \in Nat, NEW L \in SUBSET Nat,
           Pending(s, g, L, u), g + 1 \in L, s # <<>>
    PROVE  Head(s) = g + 1 /\ g + 1 <= u /\ Pending(Tail(s), g + 1, L, u)
<1> DEFINE t == Tail(s)
<1>1. /\ Len(s) \in Nat /\ Len(s) > 0 /\ Len(t) = Len(s) - 1 /\ Head(s) = s[1]
      /\ \A i \in 1 .. Len(s) : s[i] \in Nat
      /\ \A i \in 1 .. Len(s) - 1 : t[i] = s[i + 1]
  OBVIOUS
<1> HIDE DEF t
<1>12. /\ Len(t) \in Nat
       /\ \A i \in 1 .. Len(t) : i \in Nat /\ i + 1 \in 1 .. Len(s) /\ t[i] = s[i + 1]
  BY <1>1
<1>2. /\ \A i \in 1 .. Len(s) : s[i] \in L /\ g < s[i] /\ s[i] + (Len(s) - i) <= u
      /\ \A i, j \in 1 .. Len(s) : i < j => s[i] < s[j]
      /\ \A n \in L : g < n /\ n <= u => \E i \in 1 .. Len(s) : s[i] = n
  BY DEF Pending
<1>3. 1 \in 1 .. Len(s)
  BY <1>1
<1>4. s[1] \in Nat /\ g < s[1] /\ s[1] <= u
  BY <1>1, <1>2, <1>3
<1>5. g + 1 <= u /\ g < g + 1
  BY <1>4
<1>6. PICK k \in 1 .. Len(s) : s[k] = g + 1
  BY <1>2, <1>5
<1>7. k = 1
  <2>1. ASSUME 1 < k PROVE FALSE
    <3>1. s[1] < s[k]
      BY <1>2, <1>3, <2>1
    <3> QED BY <1>4, <1>6, <3>1
  <2> QED BY <1>1, <2>1
<1>8. ASSUME NEW i \in 1 .. Len(t)
      PROVE  t[i] \in L /\ g + 1 < t[i] /\ t[i] + (Len(t) - i) <= u
  <2>1. i + 1 \in 1 .. Len(s) /\ t[i] = s[i + 1] /\ 1 < i + 1
    BY <1>12
  <2>2. /\ s[1] < s[i + 1] /\ s[i + 1] \in L /\ s[i + 1] \in Nat
        /\ s[i + 1] + (Len(s) - (i + 1)) <= u
    BY <1>1, <1>2, <1>3, <2>1
  <2> QED BY <1>1, <1>6, <1>7, <2>1, <2>2
<1>9. ASSUME NEW i \in 1 .. Len(t), NEW j \in 1 .. Len(t), i < j
      PROVE  t[i] < t[j]
  <2>1. i + 1 < j + 1
    BY <1>12, <1>9
  <2>2. i + 1 \in 1 .. Len(s) /\ t[i] = s[i + 1]
    BY <1>12
  <2>3. j + 1 \in 1 .. Len(s) /\ t[j] = s[j + 1]
    BY <1>12
  <2>4. s[i + 1] < s[j + 1]
    BY <1>2, <2>1, <2>2, <2>3, Zenon
  <2> QED BY <2>2, <2>3, <2>4, Zenon
<1>10. ASSUME NEW n \in L, g + 1 < n, n <= u
       PROVE  \E i \in 1 .. Len(t) : t[i] = n
  <2>1. g < n
    BY <1>10
  <2>2. PICK i \in 1 .. Len(s) : s[i] = n
    BY <1>2, <1>10, <2>1
  <2>3. i # 1
    BY <1>6, <1>7, <1>10, <2>2
  <2>4. i - 1 \in 1 .. Len(t) /\ t[i - 1] = n
    <3>1. i - 1 \in 1 .. Len(s) - 1 /\ (i - 1) + 1 = i
      BY <1>1, <2>3
    <3> QED BY <1>1, <2>2, <3>1
  <2> QED BY <2>4
<1>11. Pending(t, g + 1, L, u)
  BY <1>5, <1>8, <1>9, <1>10 DEF Pending
<1> QED BY <1>1, <1>5, <1>6, <1>7, <1>11 DEF t

\* A reader that consumes a message which is not large leaves its socket alone.
LEMMA PendingSkip ==
    ASSUME NEW s \in Seq(Nat), NEW g \in Nat, NEW u \in Nat, NEW L \in SUBSET Nat,
           Pending(s, g, L, u), g + 1 \notin L, g + 1 <= u
    PROVE  Pending(s, g + 1, L, u)
<1>1. Len(s) \in Nat /\ \A i \in 1 .. Len(s) : s[i] \in Nat
  OBVIOUS
<1>2. ASSUME NEW i \in 1 .. Len(s)
      PROVE  s[i] \in L /\ g + 1 < s[i] /\ s[i] + (Len(s) - i) <= u
  <2>1. s[i] \in L /\ g < s[i] /\ s[i] + (Len(s) - i) <= u
    BY DEF Pending
  <2>2. s[i] # g + 1
    BY <2>1
  <2> QED BY <1>1, <2>1, <2>2
<1>3. \A i, j \in 1 .. Len(s) : i < j => s[i] < s[j]
  BY DEF Pending
<1>4. ASSUME NEW n \in L, g + 1 < n, n <= u
      PROVE  \E i \in 1 .. Len(s) : s[i] = n
  <2>1. g < n
    BY <1>4
  <2> QED BY <1>4, <2>1 DEF Pending
<1> QED BY <1>2, <1>3, <1>4 DEF Pending

\* A socket holds no more messages than the reader is behind.
LEMMA PendingShort ==
    ASSUME NEW s \in Seq(Nat), NEW g \in Nat, NEW u \in Nat, NEW L \in SUBSET Nat,
           Pending(s, g, L, u)
    PROVE  Len(s) <= u - g
<1>1. Len(s) \in Nat
  OBVIOUS
<1>2. CASE Len(s) = 0
  BY <1>2 DEF Pending
<1>3. CASE Len(s) > 0
  <2>1. 1 \in 1 .. Len(s)
    BY <1>1, <1>3
  <2>2. s[1] \in Nat /\ g < s[1] /\ s[1] + (Len(s) - 1) <= u
    BY <2>1 DEF Pending
  <2> QED BY <1>1, <2>2
<1> QED BY <1>1, <1>2, <1>3

\* The sockets are described as before when nothing is published, sent or
\* received.
LEMMA SocketStable ==
    ASSUME Types, Types', SocketInv, UNCHANGED <<socket, got, lost, published>>,
           wpc' \in {"send", "failed"} <=> wpc \in {"send", "failed"},
           \A n \in 1 .. published : n \in large' <=> n \in large
    PROVE  SocketInv'
<1>1. /\ published \in Nat /\ large \in SUBSET Nat /\ large' \in SUBSET Nat
      /\ \A r \in Readers : socket[r] \in Seq(Nat) /\ got[r] \in Nat
  BY DEF Types
<1>2. /\ SentUpTo' = SentUpTo /\ SentUpTo <= published /\ SentUpTo \in Nat
      /\ wpc \in {"send", "failed"} => published \in large /\ published \in 1 .. published
  BY <1>1 DEF SentUpTo, SocketInv
<1>3. wpc' \in {"send", "failed"} => published' \in large' /\ published' > 0
  BY <1>1, <1>2
<1>4. \A r \in Readers : \A i \in 1 .. Len(socket[r]) : socket[r][i] \in 1 .. published
  BY DEF SocketInv
<1>5. ASSUME NEW r \in Readers \ lost
      PROVE  Pending(socket[r], got[r], large', SentUpTo)
  <2>1. Pending(socket[r], got[r], large, SentUpTo)
    BY DEF SocketInv
  <2>2. \A n \in 1 .. SentUpTo : n \in large <=> n \in large'
    BY <1>1, <1>2
  <2>3. SentUpTo <= SentUpTo
    BY <1>2
  <2> QED BY <1>1, <1>2, <2>1, <2>2, <2>3, PendingSame
<1>6. \A r \in Readers \ lost : Pending(socket[r], got[r], large, SentUpTo)'
  BY <1>2, <1>5 DEF Pending
<1> QED BY <1>3, <1>4, <1>6 DEF SocketInv


\* A reader that goes from one place in dequeue to another disturbs only what is
\* said of itself.
LEMMA ReaderGoes ==
    ASSUME IInv, Types', NEW r \in Readers, NEW to,
           rpc' = [rpc EXCEPT ![r] = to], rpc[r] # "recv", to # "recv",
           UNCHANGED <<chunkVars, socketVars, writerVars, ridx, got, lost>>,
           \A q \in Readers \ {r} : /\ rflag'[q] = rflag[q] /\ copy'[q] = copy[q]
                                    /\ q \in pinged => q \in pinged',
           to = "flag" /\ ~rflag'[r] /\ written[ridx[r]] => Marked(r) < published,
           to \in {"read", "mark"} => Marked(r) < published,
           to = "mark" => copy'[r] = Marked(r) + 1,
           to = "poll" \/ (to = "flag" /\ rflag'[r]) =>
               Marked(r) >= published \/ r \in pinged' \/ wpc \in {"send", "notify", "failed"}
    PROVE  IInv'
<1>1. Types /\ RingInv /\ LocalInv /\ WakeInv /\ SocketInv
  BY DEF IInv
<1>2. rpc \in [Readers -> {"idle", "flag", "poll", "woken", "read", "mark", "recv", "stopped"}]
  BY <1>1 DEF Types
<1>3. rpc'[r] = to /\ \A q \in Readers \ {r} : rpc'[q] = rpc[q]
  BY <1>2
<1>4. \A q \in Readers : Marked(q)' = Marked(q)
  BY <1>3 DEF Marked
<1>5. /\ UNCHANGED <<written, readBy, data, large, socket, published, wpc, widx>>
  BY DEF chunkVars, socketVars, writerVars
<1>6. RingInv'
  <2>1. /\ wpc \in {"fill", "clear"} => ~written[widx]
        /\ wpc = "clear" => data[widx] = published + 1
    BY <1>1 DEF RingInv
  <2> QED BY <1>1, <1>4, <1>5, <2>1, RingStable
<1>7. LocalInv'
  <2> SUFFICES ASSUME NEW q \in Readers
               PROVE  /\ rpc'[q] = "flag" /\ ~rflag'[q] /\ written[ridx[q]] => Marked(q) < published
                      /\ rpc'[q] \in {"read", "mark"} => Marked(q) < published
                      /\ rpc'[q] = "mark" => copy'[q] = Marked(q) + 1
                      /\ rpc'[q] = "recv" => Marked(q) \in large
    BY <1>4, <1>5 DEF LocalInv
  <2>1. CASE q = r
    BY <1>3, <2>1
  <2>2. CASE q # r
    BY <1>1, <1>3, <2>2 DEF LocalInv
  <2> QED BY <2>1, <2>2
<1>8. WakeInv'
  <2> SUFFICES ASSUME NEW q \in Readers,
                      rpc'[q] = "poll" \/ (rpc'[q] = "flag" /\ rflag'[q])
               PROVE  Marked(q) >= published \/ q \in pinged' \/ wpc \in {"send", "notify", "failed"}
    BY <1>4, <1>5 DEF WakeInv
  <2>1. CASE q = r
    BY <1>3, <2>1
  <2>2. CASE q # r
    BY <1>1, <1>3, <2>2 DEF WakeInv
  <2> QED BY <2>1, <2>2
<1>9. SocketInv'
  BY <1>1, <1>5, SocketStable
<1> QED BY <1>6, <1>7, <1>8, <1>9 DEF IInv

-------------------------------------------------------------------------------
(* The writer's steps *)

\* The initial states satisfy the invariant.
LEMMA InitInv == Init => IInv
<1> SUFFICES ASSUME Init PROVE IInv
  OBVIOUS
<1>1. MaxChunks \in Nat /\ MaxChunks > 0 /\ 0 \in Chunks
  BY QueueAssumption DEF Chunks
<1>2. Types
  BY <1>1 DEF Init, Types
<1>3. \A r \in Readers : Marked(r) = 0
  <2> SUFFICES ASSUME NEW r \in Readers
               PROVE  Marked(r) = 0
    OBVIOUS
  <2>1. got[r] = 0 /\ rpc[r] = "idle"
    BY DEF Init
  <2>2. rpc[r] # "recv"
    BY <2>1
  <2>3. Marked(r) = got[r] + 0
    BY <2>2, Zenon DEF Marked
  <2> QED BY <2>1, <2>3
<1>4. RingInv
  <2>1. \A n \in Nat : ~InRing(n)
    BY DEF Init, InRing
  <2>2. Behind(0 - 0) = 0
    BY <1>1 DEF Init, Behind
  <2> QED BY <1>1, <1>3, <2>1, <2>2 DEF Init, RingInv
<1>5. LocalInv /\ WakeInv
  BY DEF Init, LocalInv, WakeInv
<1>6. SocketInv
  <2>1. /\ wpc \notin {"send", "failed"} /\ published = 0 /\ large = {}
        /\ \A r \in Readers : got[r] = 0 /\ socket[r] = <<>>
    BY DEF Init
  <2>2. SentUpTo = 0
    BY <2>1, Zenon DEF SentUpTo
  <2>3. Pending(<<>>, 0, {}, 0)
    BY DEF Pending
  <2> QED BY <2>1, <2>2, <2>3 DEF SocketInv
<1> QED BY <1>2, <1>4, <1>5, <1>6 DEF IInv

\* A step of the writer that publishes nothing and sends nothing.
LEMMA WriterQuiet ==
    ASSUME IInv, Types',
           UNCHANGED <<written, socket, pinged, published, widx, rpc, localVars, resultVars>>,
           wpc \notin {"send", "notify", "failed"}, wpc' \notin {"send", "notify", "failed"},
           \A n \in 1 .. published : n \in large' <=> n \in large,
           \A c \in Chunks : (c # widx \/ written[widx]) =>
               data'[c] = data[c] /\ readBy'[c] = readBy[c],
           wpc' \in {"fill", "clear"} => ~written[widx],
           wpc' = "clear" => data'[widx] = published + 1
    PROVE  IInv'
<1>1. Types /\ RingInv /\ LocalInv /\ WakeInv /\ SocketInv
  BY DEF IInv
<1>2. UNCHANGED <<rpc, ridx, rflag, copy, got, lost>>
  BY DEF localVars, resultVars
<1>3. \A r \in Readers : Marked(r)' = Marked(r)
  BY <1>2 DEF Marked
<1>4. published \in Nat /\ published' \in Nat /\ published <= published'
  BY <1>1, Numbers
<1>5. RingInv'
  BY <1>1, <1>2, <1>3, RingStable
<1>6. LocalInv'
  BY <1>1, <1>2, <1>4, WriterLocal
<1>7. WakeInv'
  BY <1>1, <1>2, WriterWake
<1>8. SocketInv'
  BY <1>1, <1>2, SocketStable
<1> QED BY <1>5, <1>6, <1>7, <1>8 DEF IInv

\* Enqueue, the timeout of enqueue and the filling of the chunk keep the
\* invariant.
LEMMA QuietWriterSteps ==
    ASSUME IInv,
           \/ \E fits \in BOOLEAN : Enqueue(fits)
           \/ WriteTimesOut \/ FillChunk \/ FillFails \/ \E r \in Readers : ClearFlag(r)
    PROVE  IInv'
<1>1. Types /\ RingInv
  BY DEF IInv
<1>2. /\ published \in Nat /\ widx \in Chunks /\ Message \in Nat
      /\ \A n \in 1 .. published : n # Message
  BY <1>1, Numbers DEF Message
<1>3. /\ wpc \in {"fill", "clear"} => ~written[widx]
      /\ wpc = "clear" => data[widx] = published + 1
  BY <1>1 DEF RingInv
<1>4. CASE \E fits \in BOOLEAN : Enqueue(fits)
  <2>1. /\ wpc = "idle" /\ wpc' = "acquire" /\ UNCHANGED chunkVars
        /\ large' = large \ {Message} \/ large' = large \cup {Message}
        /\ UNCHANGED <<socket, pinged, published, widx, rpc, localVars, shutdown, resultVars>>
    BY <1>4 DEF Enqueue
  <2>2. Types'
    BY <1>1, <1>2, <2>1 DEF Types, chunkVars, localVars, resultVars
  <2>3. \A n \in 1 .. published : n \in large' <=> n \in large
    BY <1>2, <2>1
  <2> QED BY <2>1, <2>2, <2>3, WriterQuiet DEF chunkVars
<1>5. CASE WriteTimesOut
  <2>1. /\ wpc = "acquire" /\ wpc' = "idle" /\ UNCHANGED chunkVars /\ UNCHANGED socketVars
        /\ UNCHANGED <<pinged, published, widx, rpc, localVars, shutdown, resultVars>>
    BY <1>5 DEF WriteTimesOut
  <2>2. Types'
    BY <1>1, <2>1 DEF Types, chunkVars, socketVars, localVars, resultVars
  <2> QED BY <2>1, <2>2, WriterQuiet DEF chunkVars, socketVars
<1>6. CASE FillChunk
  <2>1. /\ wpc = "fill" /\ wpc' = "clear" /\ data' = [data EXCEPT ![widx] = Message]
        /\ UNCHANGED <<written, readBy>> /\ UNCHANGED socketVars
        /\ UNCHANGED <<pinged, published, widx, rpc, localVars, shutdown, resultVars>>
    BY <1>6 DEF FillChunk
  <2>2. Types'
    BY <1>1, <1>2, <2>1 DEF Types, socketVars, localVars, resultVars
  <2>3. data'[widx] = published + 1 /\ \A c \in Chunks : c # widx => data'[c] = data[c]
    BY <1>1, <1>2, <2>1 DEF Types, Message
  <2> QED BY <1>3, <2>1, <2>2, <2>3, WriterQuiet DEF socketVars
<1>7. CASE FillFails
  <2>1. /\ wpc = "fill" /\ wpc' = "idle" /\ data' = [data EXCEPT ![widx] = 0]
        /\ UNCHANGED <<written, readBy>> /\ UNCHANGED socketVars
        /\ UNCHANGED <<pinged, published, widx, rpc, localVars, shutdown, resultVars>>
    BY <1>7 DEF FillFails
  <2>2. Types'
    BY <1>1, <1>2, <2>1 DEF Types, socketVars, localVars, resultVars
  <2>3. \A c \in Chunks : c # widx => data'[c] = data[c]
    BY <1>1, <1>2, <2>1 DEF Types
  <2> QED BY <1>3, <2>1, <2>2, <2>3, WriterQuiet DEF socketVars
<1>8. ASSUME NEW r \in Readers, ClearFlag(r)
      PROVE  IInv'
  <2>1. /\ wpc = "clear" /\ readBy' = [readBy EXCEPT ![widx] = @ \ {r}]
        /\ UNCHANGED <<written, data>> /\ UNCHANGED socketVars /\ UNCHANGED writerVars
        /\ UNCHANGED <<pinged, rpc, localVars, shutdown, resultVars>>
    BY <1>8 DEF ClearFlag
  <2>2. Types'
    BY <1>1, <1>2, <2>1 DEF Types, socketVars, writerVars, localVars, resultVars
  <2>3. \A c \in Chunks : c # widx => readBy'[c] = readBy[c]
    BY <1>1, <1>2, <2>1 DEF Types
  <2> QED BY <1>3, <2>1, <2>2, <2>3, WriterQuiet DEF socketVars, writerVars
<1> QED BY <1>4, <1>5, <1>6, <1>7, <1>8

\* The writer takes a chunk only when every reader has given it back.
LEMMA AcquireWriteInv ==
    ASSUME IInv, AcquireWrite
    PROVE  IInv'
<1>1. Types /\ RingInv /\ LocalInv /\ WakeInv /\ SocketInv
  BY DEF IInv
<1>2. /\ wpc = "acquire" /\ wpc' = "fill" /\ (~written[widx] \/ readBy[widx] = Readers)
      /\ written' = [written EXCEPT ![widx] = FALSE]
      /\ UNCHANGED <<readBy, data, large, socket, pinged, published, widx>>
      /\ UNCHANGED <<rpc, ridx, rflag, copy, shutdown, got, ret, lost>>
  BY DEF AcquireWrite, ChunkBusy, socketVars, localVars, resultVars
<1>3. /\ MaxChunks \in Nat /\ MaxChunks > 0 /\ published \in Nat /\ widx \in Chunks
      /\ \A r \in Readers : Marked(r) \in Nat
  BY <1>1, Numbers
<1>4. Types'
  BY <1>1, <1>2 DEF Types
<1>5. ~written'[widx] /\ \A c \in Chunks : c # widx => written'[c] = written[c]
  BY <1>1, <1>2, <1>3 DEF Types
<1>6. \A r \in Readers : Marked(r)' = Marked(r)
  BY <1>2 DEF Marked
<1>7. \A r \in Readers : published < Marked(r) + MaxChunks
  <2>1. CASE ~written[widx]
    BY <1>1, <2>1 DEF RingInv
  <2>2. CASE written[widx]
    <3>1. widx < published
      BY <1>1, <1>3, <2>2 DEF RingInv, Chunks
    <3>2. published >= MaxChunks
      BY <1>1, <1>3, <3>1 DEF RingInv, Chunks
    <3> DEFINE n == published + 1 - MaxChunks
    <3>3. n \in Nat /\ InRing(n) /\ published + 1 - n = MaxChunks
      BY <1>3, <2>2, <3>2 DEF InRing
    <3>4. \A k \in Nat : k >= n => published < k + MaxChunks
      BY <1>3
    <3> HIDE DEF n
    <3>5. ChunkOf(n) = widx
      BY <1>3, <3>3, BehindFacts DEF ChunkOf
    <3>6. readBy[widx] = {q \in Readers : Marked(q) >= n}
      BY <1>1, <3>3, <3>5 DEF RingInv
    <3> QED BY <1>2, <1>3, <2>2, <3>4, <3>6
  <2> QED BY <2>1, <2>2
<1>8. RingInv'
  <2>1. \A n \in Nat : InRing(n)' => InRing(n) /\ ChunkOf(n) \in Chunks /\ ChunkOf(n) # widx
    <3> SUFFICES ASSUME NEW n \in Nat, InRing(n)'
                 PROVE  InRing(n) /\ ChunkOf(n) \in Chunks /\ ChunkOf(n) # widx
      OBVIOUS
    <3>1. n \in 1 .. published /\ published < n + MaxChunks - 1
      BY <1>2, <1>5 DEF InRing
    <3>2. InRing(n)
      BY <3>1 DEF InRing
    <3> QED BY <1>1, <3>1, <3>2, RingChunks
  <2>2. \A n \in Nat : ChunkOf(n)' = ChunkOf(n)
    BY <1>2 DEF ChunkOf, Behind
  <2>3. ASSUME NEW n \in Nat, InRing(n)'
        PROVE  /\ written'[ChunkOf(n)']
               /\ data'[ChunkOf(n)'] = n
               /\ readBy'[ChunkOf(n)'] = {r \in Readers : Marked(r)' >= n}
    <3>1. /\ InRing(n) /\ ChunkOf(n) \in Chunks /\ ChunkOf(n) # widx
      BY <2>1, <2>3
    <3>2. /\ written[ChunkOf(n)] /\ data[ChunkOf(n)] = n
          /\ readBy[ChunkOf(n)] = {r \in Readers : Marked(r) >= n}
      BY <1>1, <3>1 DEF RingInv
    <3>3. {r \in Readers : Marked(r)' >= n} = {r \in Readers : Marked(r) >= n}
      BY <1>6
    <3> QED BY <1>2, <1>5, <2>2, <3>1, <3>2, <3>3
  <2>4. \A r \in Readers :
           /\ ridx'[r] = Behind(published - Marked(r))'
           /\ Marked(r)' <= published'
           /\ published' <= Marked(r)' + MaxChunks
           /\ published' < Marked(r)' + MaxChunks
    <3> SUFFICES ASSUME NEW r \in Readers
                 PROVE  /\ ridx'[r] = Behind(published - Marked(r))'
                        /\ Marked(r)' <= published'
                        /\ published' <= Marked(r)' + MaxChunks
                        /\ published' < Marked(r)' + MaxChunks
      OBVIOUS
    <3>1. UNCHANGED <<published, widx, ridx>> /\ Marked(r)' = Marked(r)
      BY <1>2, <1>6
    <3>2. Behind(published - Marked(r))' = Behind(published - Marked(r))
      BY <3>1, Zenon DEF Behind
    <3>3. /\ ridx[r] = Behind(published - Marked(r)) /\ Marked(r) <= published
          /\ published <= Marked(r) + MaxChunks /\ published < Marked(r) + MaxChunks
      BY <1>1, <1>7 DEF RingInv
    <3> QED BY <3>1, <3>2, <3>3, Zenon
  <2>5. /\ published' < MaxChunks => widx' = published'
        /\ \A c \in Chunks : c >= published' => ~written'[c]
    BY <1>1, <1>2, <1>5 DEF RingInv
  <2>6. wpc' # "clear" /\ ~written'[widx']
    BY <1>2, <1>5
  <2> QED BY <2>3, <2>4, <2>5, <2>6 DEF RingInv
<1>9. LocalInv'
  <2>1. \A r \in Readers : ridx[r] \in Chunks
    BY <1>1 DEF Types
  <2>2. \A r \in Readers : ~(written'[ridx[r]] /\ ~written[ridx[r]])
    BY <1>5, <2>1
  <2> QED BY <1>1, <1>2, <1>3, <2>2, WriterLocal
<1>10. WakeInv'
  BY <1>1, <1>2, WriterWake
<1>11. SocketInv'
  BY <1>1, <1>2, <1>4, SocketStable
<1> QED BY <1>4, <1>8, <1>9, <1>10, <1>11 DEF IInv


\* Publishing makes the written chunk the newest message of the ring.
LEMMA PublishInv ==
    ASSUME IInv, Publish
    PROVE  IInv'
<1>1. Types /\ RingInv /\ LocalInv /\ WakeInv /\ SocketInv
  BY DEF IInv
<1>2. /\ wpc = "clear" /\ readBy[widx] = {}
      /\ written' = [written EXCEPT ![widx] = TRUE]
      /\ published' = published + 1 /\ widx' = NextChunk(widx)
      /\ wpc' = IF published + 1 \in large THEN "send" ELSE "notify"
      /\ UNCHANGED <<readBy, data, large, socket, pinged>>
      /\ UNCHANGED <<rpc, ridx, rflag, copy, shutdown, got, ret, lost>>
  BY DEF Publish, Message, socketVars, localVars, resultVars
<1>3. /\ MaxChunks \in Nat /\ MaxChunks > 0 /\ published \in Nat
      /\ widx \in Chunks /\ widx \in Nat /\ widx < MaxChunks
      /\ \A r \in Readers : Marked(r) \in Nat /\ got[r] \in Nat
  BY <1>1, Numbers
<1>4. widx' \in Chunks /\ widx' = IF widx + 1 = MaxChunks THEN 0 ELSE widx + 1
  BY <1>2, <1>3, NextChunkFacts
<1>5. Types'
  BY <1>1, <1>2, <1>3, <1>4 DEF Types
<1>6. written'[widx] /\ \A c \in Chunks : c # widx => written'[c] = written[c]
  BY <1>1, <1>2, <1>3 DEF Types
<1>7. \A r \in Readers : Marked(r)' = Marked(r)
  BY <1>2 DEF Marked
<1>8. /\ ~written[widx] /\ data[widx] = published + 1
      /\ published < MaxChunks => widx = published
      /\ \A r \in Readers : /\ ridx[r] = Behind(published - Marked(r))
                            /\ Marked(r) <= published
                            /\ published < Marked(r) + MaxChunks
  BY <1>1, <1>2 DEF RingInv
<1>9. \A n \in Nat : n <= published /\ published < n + MaxChunks - 1 => ChunkOf(n)' = ChunkOf(n)
  <2> SUFFICES ASSUME NEW n \in Nat, n <= published, published < n + MaxChunks - 1
               PROVE  ChunkOf(n)' = ChunkOf(n)
    OBVIOUS
  <2>1. /\ published + 1 - n \in 0 .. MaxChunks - 1
        /\ published' + 1 - n = (published + 1 - n) + 1
    BY <1>2, <1>3
  <2> QED BY <1>2, <1>3, <2>1, BehindNext DEF ChunkOf
<1>10. RingInv'
  <2>1. ASSUME NEW n \in Nat, InRing(n)'
        PROVE  /\ written'[ChunkOf(n)']
               /\ data'[ChunkOf(n)'] = n
               /\ readBy'[ChunkOf(n)'] = {r \in Readers : Marked(r)' >= n}
    <3>1. n \in 1 .. published + 1 /\ published + 1 <= n + MaxChunks - 1
      BY <1>2, <1>3, <2>1 DEF InRing
    <3>2. CASE n = published + 1
      <4>1. published' + 1 - n = 0 + 1
        BY <1>2, <1>3, <3>2
      <4>2. ChunkOf(n)' = widx
        <5>1. Behind(0 + 1)' = Behind(0)
          BY <1>2, <1>3, BehindNext
        <5> QED BY <1>3, <4>1, <5>1, BehindFacts DEF ChunkOf
      <4>3. \A r \in Readers : ~(Marked(r)' >= n)
        BY <1>3, <1>7, <1>8, <3>2
      <4> QED BY <1>2, <1>6, <1>8, <3>2, <4>2, <4>3
    <3>3. CASE n # published + 1
      <4>1. n <= published /\ published < n + MaxChunks - 1 /\ InRing(n)
        BY <1>3, <3>1, <3>3 DEF InRing
      <4>2. ChunkOf(n)' = ChunkOf(n) /\ ChunkOf(n) \in Chunks /\ ChunkOf(n) # widx
        BY <1>1, <1>9, <4>1, RingChunks
      <4>3. /\ written[ChunkOf(n)] /\ data[ChunkOf(n)] = n
            /\ readBy[ChunkOf(n)] = {r \in Readers : Marked(r) >= n}
        BY <1>1, <4>1 DEF RingInv
      <4>4. {r \in Readers : Marked(r)' >= n} = {r \in Readers : Marked(r) >= n}
        BY <1>7
      <4> QED BY <1>2, <1>6, <4>2, <4>3, <4>4
    <3> QED BY <3>2, <3>3
  <2>2. ASSUME NEW r \in Readers
        PROVE  /\ ridx'[r] = Behind(published - Marked(r))'
               /\ Marked(r)' <= published'
               /\ published' <= Marked(r)' + MaxChunks
    <3>1. PICK d \in 0 .. MaxChunks - 1 : d = published - Marked(r)
      BY <1>3, <1>8
    <3>2. published' - Marked(r)' = d + 1
      BY <1>2, <1>3, <1>7, <3>1
    <3>3. Behind(d + 1)' = Behind(d)
      BY <1>2, <1>3, BehindNext
    <3>4. Behind(published - Marked(r))' = Behind(d + 1)'
      BY <3>2 DEF Behind
    <3>5. ridx'[r] = Behind(d)
      BY <1>2, <1>8, <3>1
    <3>6. /\ Marked(r) \in Nat /\ published \in Nat /\ MaxChunks \in Nat
          /\ Marked(r) <= published /\ published < Marked(r) + MaxChunks
          /\ Marked(r)' = Marked(r) /\ published' = published + 1
      BY <1>2, <1>3, <1>7, <1>8
    <3>7. Marked(r)' <= published' /\ published' <= Marked(r)' + MaxChunks
      BY <3>6
    <3> QED BY <3>3, <3>4, <3>5, <3>7
  <2>3. ASSUME NEW r \in Readers, ~written'[widx']
        PROVE  published' < Marked(r)' + MaxChunks
    <3>0. /\ Marked(r) \in Nat /\ published \in Nat /\ MaxChunks \in Nat
          /\ published < Marked(r) + MaxChunks
          /\ Marked(r)' = Marked(r) /\ published' = published + 1
      <4>1. Marked(r) \in Nat /\ published \in Nat /\ MaxChunks \in Nat
        BY <1>3
      <4>2. published < Marked(r) + MaxChunks
        BY <1>8
      <4>3. Marked(r)' = Marked(r)
        BY <1>7
      <4>4. published' = published + 1
        BY <1>2
      <4> QED BY <4>1, <4>2, <4>3, <4>4, Zenon
    <3> SUFFICES ASSUME published + 1 = Marked(r) + MaxChunks
                 PROVE  FALSE
      BY <3>0
    <3>1. widx' # widx
      BY <1>6, <2>3
    <3>2. MaxChunks > 1
      BY <1>3, <1>4, <3>1
    <3>3. Marked(r) < published
      BY <1>3, <3>2
    <3>4. written[ridx[r]]
      BY <1>1, <3>3, FlagsTell
    <3>5. ridx[r] = widx'
      <4>1. published - Marked(r) = MaxChunks - 1
        BY <1>3
      <4>2. ridx[r] = Behind(MaxChunks - 1)
        BY <1>8, <4>1
      <4> QED BY <1>3, <1>4, <3>2, <4>2 DEF Behind
    <3> QED BY <1>4, <1>6, <2>3, <3>1, <3>4, <3>5
  <2>4. published' < MaxChunks => widx' = published'
    <3>1. /\ published' = published + 1
          /\ published < MaxChunks => widx = published
          /\ widx' = IF widx + 1 = MaxChunks THEN 0 ELSE widx + 1
      BY <1>2, <1>4, <1>8
    <3>2. published \in Nat /\ MaxChunks \in Nat /\ widx \in Nat
      BY <1>3
    <3> QED BY <3>1, <3>2
  <2>5. \A c \in Chunks : c >= published' => ~written'[c]
    <3> SUFFICES ASSUME NEW c \in Chunks, c >= published + 1
                 PROVE  ~written'[c]
      BY <1>2
    <3>1. c \in Nat /\ c < MaxChunks
      BY <1>3 DEF Chunks
    <3>2. c # widx /\ c >= published
      BY <1>3, <1>8, <3>1
    <3>3. ~written[c]
      BY <1>1, <3>2 DEF RingInv
    <3> QED BY <1>6, <3>2, <3>3
  <2>6. wpc' \notin {"fill", "clear"}
    BY <1>2
  <2> QED BY <2>1, <2>2, <2>3, <2>4, <2>5, <2>6 DEF RingInv
<1>11. LocalInv'
  <2>1. published' \in Nat /\ published <= published'
    <3>1. published' = published + 1 /\ published \in Nat
      BY <1>2, <1>3
    <3> QED BY <3>1
  <2>2. ASSUME NEW r \in Readers
        PROVE  Marked(r) < published'
    <3>1. /\ Marked(r) \in Nat /\ published \in Nat /\ Marked(r) <= published
          /\ published' = published + 1
      BY <1>2, <1>3, <1>8, Zenon
    <3> QED BY <3>1
  <2>3. large' = large /\ UNCHANGED <<rpc, ridx, rflag, copy, got>>
    BY <1>2
  <2> QED BY <1>1, <2>1, <2>2, <2>3, WriterLocal, Zenon
<1>12. WakeInv'
  BY <1>1, <1>2, WriterWake
<1>13. SocketInv'
  <2>1. /\ SentUpTo = published /\ SentUpTo \in Nat
        /\ SentUpTo' = IF published + 1 \in large THEN published ELSE published + 1
    BY <1>2, <1>3 DEF SentUpTo
  <2>2. /\ SentUpTo' \in Nat /\ SentUpTo <= SentUpTo'
        /\ \A n \in large : n <= SentUpTo' => n <= SentUpTo
    BY <1>1, <1>3, <2>1 DEF Types
  <2>3. wpc' \in {"send", "failed"} => published' \in large' /\ published' > 0
    BY <1>2, <1>3
  <2>4. \A r \in Readers : \A i \in 1 .. Len(socket[r]) : socket[r][i] \in 1 .. published'
    <3>1. \A k \in 1 .. published : k \in 1 .. published'
      BY <1>2, <1>3
    <3>2. \A r \in Readers : \A i \in 1 .. Len(socket[r]) : socket[r][i] \in 1 .. published
      BY <1>1 DEF SocketInv
    <3> QED BY <3>1, <3>2, Zenon
  <2>5. ASSUME NEW r \in Readers \ lost
        PROVE  Pending(socket[r], got[r], large, SentUpTo')
    <3>1. /\ Pending(socket[r], got[r], large, SentUpTo)
          /\ socket[r] \in Seq(Nat) /\ got[r] \in Nat /\ large \in SUBSET Nat
      BY <1>1 DEF SocketInv, Types
    <3> QED BY <2>1, <2>2, <3>1, PendingSame
  <2>6. \A r \in Readers \ lost : Pending(socket[r], got[r], large, SentUpTo)'
    BY <1>2, <2>5 DEF Pending
  <2> QED BY <1>2, <2>3, <2>4, <2>6 DEF SocketInv
<1> QED BY <1>5, <1>10, <1>11, <1>12, <1>13 DEF IInv


\* A large message goes to the end of every socket.
LEMMA SendLargeInv ==
    ASSUME IInv, SendLarge
    PROVE  IInv'
<1>1. Types /\ RingInv /\ LocalInv /\ WakeInv /\ SocketInv
  BY DEF IInv
<1>2. /\ wpc = "send" /\ wpc' = "notify"
      /\ socket' = [r \in Readers |-> Append(socket[r], published)]
      /\ UNCHANGED <<written, readBy, data, large, pinged, published, widx>>
      /\ UNCHANGED <<rpc, ridx, rflag, copy, shutdown, got, ret, lost>>
  BY DEF SendLarge, chunkVars, localVars, resultVars
<1>3. published \in Nat /\ published > 0 /\ published \in large
  BY <1>1, <1>2 DEF SocketInv, Types
<1>4. Types'
  <2>1. socket' \in [Readers -> Seq(Nat)]
    BY <1>1, <1>2, <1>3 DEF Types
  <2> QED BY <1>1, <1>2, <2>1 DEF Types
<1>5. RingInv'
  <2>1. \A r \in Readers : Marked(r)' = Marked(r)
    BY <1>2 DEF Marked
  <2> QED BY <1>1, <1>2, <2>1, RingStable
<1>6. LocalInv'
  <2>1. published' \in Nat /\ published <= published'
    BY <1>2, <1>3
  <2> QED BY <1>1, <1>2, <2>1, WriterLocal
<1>7. WakeInv'
  BY <1>1, <1>2, WriterWake
<1>8. SocketInv'
  <2>1. SentUpTo = published - 1 /\ SentUpTo' = published
    BY <1>2 DEF SentUpTo
  <2>2. \A r \in Readers : /\ socket'[r] = Append(socket[r], published)
                           /\ socket[r] \in Seq(Nat) /\ got[r] \in Nat /\ large \in SUBSET Nat
    BY <1>1, <1>2 DEF Types
  <2>3. ASSUME NEW r \in Readers, NEW i \in 1 .. Len(socket'[r])
        PROVE  socket'[r][i] \in 1 .. published
    <3>1. Len(socket'[r]) = Len(socket[r]) + 1 /\ Len(socket[r]) \in Nat
      BY <1>3, <2>2
    <3>2. CASE i = Len(socket[r]) + 1
      BY <1>3, <2>2, <3>2
    <3>3. CASE i \in 1 .. Len(socket[r])
      <4>1. socket'[r][i] = socket[r][i]
        <5>1. socket[r] \in Seq(Nat) /\ socket'[r] = Append(socket[r], published)
          BY <2>2
        <5> QED BY <1>3, <3>3, <5>1
      <4> QED BY <1>1, <3>3, <4>1 DEF SocketInv
    <3> QED BY <3>1, <3>2, <3>3
  <2>4. ASSUME NEW r \in Readers \ lost
        PROVE  Pending(Append(socket[r], published), got[r], large, published)
    <3>1. Pending(socket[r], got[r], large, published - 1)
      BY <1>1, <2>1 DEF SocketInv
    <3> QED BY <1>3, <2>2, <3>1, PendingAppend
  <2>5. \A r \in Readers \ lost : Pending(socket[r], got[r], large, SentUpTo)'
    BY <1>2, <2>1, <2>2, <2>4 DEF Pending
  <2> QED BY <1>2, <2>3, <2>5 DEF SocketInv
<1> QED BY <1>4, <1>5, <1>6, <1>7, <1>8 DEF IInv

\* A failure of send_multipart ends the writer; the message stays unsent.
LEMMA SendFailsInv ==
    ASSUME IInv, SendFails
    PROVE  IInv'
<1>1. Types /\ RingInv /\ LocalInv /\ WakeInv /\ SocketInv
  BY DEF IInv
<1>2. /\ wpc = "send" /\ wpc' = "failed"
      /\ UNCHANGED <<written, readBy, data, large, socket, pinged, published, widx>>
      /\ UNCHANGED <<rpc, ridx, rflag, copy, shutdown, got, ret, lost>>
  BY DEF SendFails, chunkVars, socketVars, localVars, resultVars
<1>3. Types'
  BY <1>1, <1>2 DEF Types
<1>4. RingInv'
  <2>1. \A r \in Readers : Marked(r)' = Marked(r)
    BY <1>2 DEF Marked
  <2> QED BY <1>1, <1>2, <2>1, RingStable
<1>5. LocalInv'
  <2>1. published' \in Nat /\ published <= published'
    BY <1>1, <1>2, Numbers
  <2> QED BY <1>1, <1>2, <2>1, WriterLocal
<1>6. WakeInv'
  BY <1>1, <1>2, WriterWake
<1>7. SocketInv'
  BY <1>1, <1>2, <1>3, SocketStable
<1> QED BY <1>3, <1>4, <1>5, <1>6, <1>7 DEF IInv

\* The notification ends an enqueue.
LEMMA NotifyInv ==
    ASSUME IInv, Notify
    PROVE  IInv'
<1>1. Types /\ RingInv /\ LocalInv /\ WakeInv /\ SocketInv
  BY DEF IInv
<1>2. /\ wpc = "notify" /\ wpc' = "idle" /\ pinged' = Readers
      /\ UNCHANGED <<written, readBy, data, large, socket, published, widx>>
      /\ UNCHANGED <<rpc, ridx, rflag, copy, shutdown, got, ret, lost>>
  BY DEF Notify, chunkVars, socketVars, localVars, resultVars
<1>3. Types'
  BY <1>1, <1>2 DEF Types
<1>4. RingInv'
  <2>1. \A r \in Readers : Marked(r)' = Marked(r)
    BY <1>2 DEF Marked
  <2> QED BY <1>1, <1>2, <2>1, RingStable
<1>5. LocalInv'
  <2>1. published' \in Nat /\ published <= published'
    BY <1>1, <1>2, Numbers
  <2> QED BY <1>1, <1>2, <2>1, WriterLocal
<1>6. WakeInv'
  BY <1>1, <1>2, WriterWake DEF Types
<1>7. SocketInv'
  BY <1>1, <1>2, <1>3, SocketStable
<1> QED BY <1>3, <1>4, <1>5, <1>6, <1>7 DEF IInv

-------------------------------------------------------------------------------
(* The readers' steps *)

\* The steps of dequeue that only look keep the invariant.
LEMMA LookingSteps ==
    ASSUME IInv, NEW r \in Readers,
           \/ ReadFlag(r) \/ Cancelled(r) \/ FindChunk(r) \/ Wait(r) \/ DequeueTimesOut(r)
           \/ PollReturns(r) \/ PollTimesOut(r) \/ ReadChunk(r) \/ ReadFails(r)
    PROVE  IInv'
<1>1. Types /\ RingInv /\ LocalInv /\ WakeInv
  BY DEF IInv
<1>2. /\ published \in Nat /\ Marked(r) \in Nat
      /\ written[ridx[r]] /\ r \notin readBy[ridx[r]] <=> Marked(r) < published
  BY <1>1, Numbers, FlagsTell
<1>3. /\ rflag \in [Readers -> BOOLEAN] /\ copy \in [Readers -> Nat]
      /\ data \in [Chunks -> Nat] /\ ridx[r] \in Chunks
  BY <1>1 DEF Types
<1>4. ASSUME NEW from, NEW to \in {"idle", "flag", "poll", "woken", "read", "mark", "stopped"},
             Goes(r, from, to), UNCHANGED resultVars,
             rflag' \in [Readers -> BOOLEAN], copy' \in [Readers -> Nat],
             pinged' \in SUBSET Readers
      PROVE  /\ Types' /\ rpc' = [rpc EXCEPT ![r] = to]
             /\ UNCHANGED <<chunkVars, socketVars, writerVars, ridx, got, lost>>
  <2>1. /\ rpc' = [rpc EXCEPT ![r] = to]
        /\ UNCHANGED <<chunkVars, socketVars, writerVars, ridx, shutdown>>
        /\ UNCHANGED <<got, ret, lost>>
    BY <1>4 DEF Goes, resultVars
  <2>2. rpc' \in [Readers -> {"idle", "flag", "poll", "woken", "read", "mark", "recv",
                              "stopped"}]
    BY <1>1, <2>1 DEF Types
  <2>3. Types'
    BY <1>1, <1>4, <2>1, <2>2 DEF Types, chunkVars, socketVars, writerVars
  <2> QED BY <2>1, <2>3
<1>5. CASE ReadFlag(r)
  <2>1. PICK from \in {"idle", "woken"} : Goes(r, from, "flag")
    BY <1>5 DEF ReadFlag
  <2>2. /\ rflag' = [rflag EXCEPT ![r] = r \in readBy[ridx[r]]]
        /\ UNCHANGED <<pinged, copy, resultVars>>
    BY <1>5 DEF ReadFlag
  <2>3. rflag' \in [Readers -> BOOLEAN] /\ pinged' \in SUBSET Readers
    <3>1. pinged' = pinged /\ pinged \in SUBSET Readers
      BY <1>1, <2>2 DEF Types
    <3>2. rflag' \in [Readers -> BOOLEAN]
      BY <1>3, <2>2, FlagUpdate, Zenon
    <3> QED BY <3>1, <3>2, Zenon
  <2>4. rflag'[r] = (r \in readBy[ridx[r]]) /\ \A q \in Readers \ {r} : rflag'[q] = rflag[q]
    BY <1>3, <2>2
  <2>5. rpc[r] # "recv"
    BY <2>1 DEF Goes
  <2>6. /\ ~rflag'[r] /\ written[ridx[r]] => Marked(r) < published
        /\ rflag'[r] => Marked(r) >= published
    <3>1. \A a, b \in Nat : ~(a < b) => a >= b
      OBVIOUS
    <3>2. r \in readBy[ridx[r]] => ~(Marked(r) < published)
      BY <1>2, Zenon
    <3>3. r \in readBy[ridx[r]] => Marked(r) >= published
      BY <1>2, <3>1, <3>2, Zenon
    <3> QED BY <1>2, <2>4, <3>3, Zenon
  <2>7. /\ Types' /\ rpc' = [rpc EXCEPT ![r] = "flag"]
        /\ UNCHANGED <<chunkVars, socketVars, writerVars, ridx, got, lost>>
    BY <1>3, <1>4, <2>1, <2>2, <2>3
  <2> QED BY <2>2, <2>4, <2>5, <2>6, <2>7, ReaderGoes
<1>6. CASE Cancelled(r) \/ PollTimesOut(r) \/ ReadFails(r)
  <2>1. PICK from \in {"woken", "poll", "read"}, to \in {"stopped", "woken"} : Goes(r, from, to)
    BY <1>6 DEF Cancelled, PollTimesOut, ReadFails
  <2>2. UNCHANGED <<pinged, rflag, copy, resultVars>>
    BY <1>6 DEF Cancelled, PollTimesOut, ReadFails
  <2>3. pinged' \in SUBSET Readers
    BY <1>1, <2>2 DEF Types
  <2>4. rpc[r] # "recv"
    BY <2>1 DEF Goes
  <2>5. /\ Types' /\ rpc' = [rpc EXCEPT ![r] = to]
        /\ UNCHANGED <<chunkVars, socketVars, writerVars, ridx, got, lost>>
    BY <1>3, <1>4, <2>1, <2>2, <2>3
  <2> QED BY <2>1, <2>2, <2>4, <2>5, ReaderGoes
<1>7. CASE FindChunk(r)
  <2>1. /\ Goes(r, "flag", "read") /\ written[ridx[r]] /\ ~rflag[r]
        /\ UNCHANGED <<pinged, rflag, copy, resultVars>>
    BY <1>7 DEF FindChunk
  <2>2. pinged' \in SUBSET Readers
    BY <1>1, <2>1 DEF Types
  <2>3. rpc[r] = "flag"
    BY <2>1 DEF Goes
  <2>4. Marked(r) < published
    BY <1>1, <2>1, <2>3 DEF LocalInv
  <2>5. /\ Types' /\ rpc' = [rpc EXCEPT ![r] = "read"]
        /\ UNCHANGED <<chunkVars, socketVars, writerVars, ridx, got, lost>>
    BY <1>3, <1>4, <2>1, <2>2
  <2> QED BY <2>1, <2>3, <2>4, <2>5, ReaderGoes
<1>8. CASE Wait(r) \/ DequeueTimesOut(r)
  <2>1. PICK to \in {"idle", "woken", "poll"} : Goes(r, "flag", to)
    BY <1>8 DEF Wait, DequeueTimesOut
  <2>2. /\ ~written[ridx[r]] \/ rflag[r]
        /\ rflag' = [rflag EXCEPT ![r] = FALSE]
        /\ UNCHANGED <<pinged, copy, resultVars>>
    BY <1>8 DEF Wait, DequeueTimesOut
  <2>3. pinged' \in SUBSET Readers /\ rflag' \in [Readers -> BOOLEAN]
    BY <1>1, <1>3, <2>2 DEF Types
  <2>4. rpc[r] = "flag" /\ \A q \in Readers \ {r} : rflag'[q] = rflag[q]
    BY <1>3, <2>1, <2>2 DEF Goes
  <2>5. Marked(r) >= published \/ r \in pinged \/ wpc \in {"send", "notify", "failed"}
    <3>1. CASE rflag[r]
      BY <1>1, <2>4, <3>1 DEF WakeInv
    <3>2. CASE ~written[ridx[r]]
      <4>1. \A a, b \in Nat : ~(a < b) => a >= b
        OBVIOUS
      <4>2. published \in Nat /\ Marked(r) \in Nat /\ ~(Marked(r) < published)
        BY <1>2, <3>2, Zenon
      <4> QED BY <4>1, <4>2, Zenon
    <3> QED BY <2>2, <3>1, <3>2
  <2>6. /\ Types' /\ rpc' = [rpc EXCEPT ![r] = to]
        /\ UNCHANGED <<chunkVars, socketVars, writerVars, ridx, got, lost>>
    BY <1>3, <1>4, <2>1, <2>2, <2>3
  <2> QED BY <2>1, <2>2, <2>4, <2>5, <2>6, ReaderGoes
<1>9. CASE PollReturns(r)
  <2>1. /\ Goes(r, "poll", "woken")
        /\ pinged' = pinged \/ pinged' = pinged \ {r}
        /\ UNCHANGED <<rflag, copy, resultVars>>
    BY <1>9 DEF PollReturns
  <2>2. /\ pinged' \in SUBSET Readers
        /\ \A q \in Readers \ {r} : q \in pinged => q \in pinged'
    BY <1>1, <2>1 DEF Types
  <2>3. rpc[r] = "poll"
    BY <2>1 DEF Goes
  <2>4. /\ Types' /\ rpc' = [rpc EXCEPT ![r] = "woken"]
        /\ UNCHANGED <<chunkVars, socketVars, writerVars, ridx, got, lost>>
    BY <1>3, <1>4, <2>1, <2>2
  <2> QED BY <2>1, <2>2, <2>3, <2>4, ReaderGoes
<1>10. CASE ReadChunk(r)
  <2>1. /\ Goes(r, "read", "mark") /\ copy' = [copy EXCEPT ![r] = data[ridx[r]]]
        /\ UNCHANGED <<pinged, rflag, resultVars>>
    BY <1>10 DEF ReadChunk
  <2>2. pinged' \in SUBSET Readers /\ copy' \in [Readers -> Nat]
    BY <1>1, <1>3, <2>1 DEF Types
  <2>3. rpc[r] = "read" /\ copy'[r] = data[ridx[r]]
        /\ \A q \in Readers \ {r} : copy'[q] = copy[q]
    BY <1>3, <2>1 DEF Goes
  <2>4. Marked(r) < published
    BY <1>1, <2>3 DEF LocalInv
  <2>5. data[ridx[r]] = Marked(r) + 1
    <3>1. /\ Marked(r) + 1 \in Nat /\ InRing(Marked(r) + 1)
          /\ ChunkOf(Marked(r) + 1) = ridx[r]
      BY <1>1, <2>4, NextInRing
    <3> QED BY <1>1, <3>1 DEF RingInv
  <2>6. /\ Types' /\ rpc' = [rpc EXCEPT ![r] = "mark"]
        /\ UNCHANGED <<chunkVars, socketVars, writerVars, ridx, got, lost>>
    BY <1>3, <1>4, <2>1, <2>2
  <2> QED BY <2>1, <2>3, <2>4, <2>5, <2>6, ReaderGoes
<1> QED BY <1>5, <1>6, <1>7, <1>8, <1>9, <1>10


\* Giving the chunk back.
LEMMA MarkReadInv ==
    ASSUME IInv, NEW r \in Readers, MarkRead(r)
    PROVE  IInv'
<1>1. Types /\ RingInv /\ LocalInv /\ WakeInv /\ SocketInv
  BY DEF IInv
<1>2. /\ rpc[r] = "mark"
      /\ readBy' = [readBy EXCEPT ![ridx[r]] = @ \cup {r}]
      /\ ridx' = [ridx EXCEPT ![r] = NextChunk(@)]
      /\ copy' = [copy EXCEPT ![r] = 0]
      /\ UNCHANGED <<written, data, large, socket, pinged, published, wpc, widx, rflag, shutdown,
                      lost>>
      /\ \/ /\ copy[r] \in large /\ rpc' = [rpc EXCEPT ![r] = "recv"]
            /\ UNCHANGED <<got, ret>>
         \/ /\ copy[r] \notin large /\ rpc' = [rpc EXCEPT ![r] = "idle"]
            /\ got' = [got EXCEPT ![r] = @ + 1] /\ ret' = [ret EXCEPT ![r] = copy[r]]
  BY DEF MarkRead, socketVars, writerVars, resultVars
<1>3. /\ MaxChunks \in Nat /\ MaxChunks > 0 /\ published \in Nat /\ widx \in Chunks
      /\ \A q \in Readers : Marked(q) \in Nat /\ got[q] \in Nat
  BY <1>1, Numbers
<1>4. Marked(r) < published /\ copy[r] = Marked(r) + 1 /\ Marked(r) = got[r]
  <2>1. rpc[r] = "mark"
    BY <1>2
  <2>2. Marked(r) < published /\ copy[r] = Marked(r) + 1
    BY <1>1, <2>1 DEF LocalInv
  <2>3. rpc[r] # "recv"
    BY <2>1
  <2> QED BY <1>1, <2>2, <2>3, ReaderFacts
<1>5. /\ ridx[r] \in Chunks /\ NextChunk(ridx[r]) \in Chunks
      /\ rpc \in [Readers -> {"idle", "flag", "poll", "woken", "read", "mark", "recv", "stopped"}]
      /\ got \in [Readers -> Nat] /\ ret \in [Readers -> Nat] /\ copy \in [Readers -> Nat]
      /\ ridx \in [Readers -> Chunks] /\ readBy \in [Chunks -> SUBSET Readers]
  BY <1>1, NextChunkFacts DEF Types
<1>6. Types'
  <2>1. readBy' \in [Chunks -> SUBSET Readers]
    <3>1. readBy' = [readBy EXCEPT ![ridx[r]] = @ \cup {r}]
      BY <1>2
    <3> QED BY <1>5, <3>1
  <2>2. ridx' \in [Readers -> Chunks]
    <3>1. ridx' = [ridx EXCEPT ![r] = NextChunk(ridx[r])]
      BY <1>2
    <3> QED BY <1>5, <3>1
  <2>3. copy' \in [Readers -> Nat] /\ copy[r] \in Nat
    <3>1. copy' = [copy EXCEPT ![r] = 0]
      BY <1>2
    <3> QED BY <1>5, <3>1
  <2>4. got' \in [Readers -> Nat]
    <3>1. got' = got \/ got' = [got EXCEPT ![r] = @ + 1]
      BY <1>2
    <3> QED BY <1>5, <3>1
  <2>5. ret' \in [Readers -> Nat]
    <3>1. ret' = ret \/ ret' = [ret EXCEPT ![r] = copy[r]]
      BY <1>2
    <3> QED BY <1>5, <2>3, <3>1
  <2>6. rpc' \in [Readers -> {"idle", "flag", "poll", "woken", "read", "mark", "recv",
                             "stopped"}]
    <3>1. rpc' = [rpc EXCEPT ![r] = "recv"] \/ rpc' = [rpc EXCEPT ![r] = "idle"]
      BY <1>2
    <3> QED BY <1>5, <3>1
  <2> QED BY <1>1, <1>2, <2>1, <2>2, <2>3, <2>4, <2>5, <2>6 DEF Types
<1>7. /\ \A q \in Readers \ {r} : /\ rpc'[q] = rpc[q] /\ got'[q] = got[q]
                                  /\ ridx'[q] = ridx[q] /\ copy'[q] = copy[q]
      /\ rpc'[r] \in {"recv", "idle"} /\ ridx'[r] = NextChunk(ridx[r])
  BY <1>2, <1>5
<1>8. /\ Marked(r)' = Marked(r) + 1
      /\ \A q \in Readers \ {r} : Marked(q)' = Marked(q)
  <2>1. Marked(r)' = Marked(r) + 1
    <3>0. Marked(r) = got[r] /\ got[r] \in Nat
      BY <1>3, <1>4
    <3>1. CASE copy[r] \in large
      <4>1. rpc'[r] = "recv" /\ got'[r] = got[r]
        BY <1>2, <1>5, <3>1
      <4>2. Marked(r)' = got'[r] + 1
        BY <4>1 DEF Marked
      <4> QED BY <3>0, <4>1, <4>2
    <3>2. CASE copy[r] \notin large
      <4>1. rpc'[r] = "idle" /\ got'[r] = got[r] + 1
        BY <1>2, <1>5, <3>2
      <4>2. Marked(r)' = got'[r] + 0
        BY <4>1 DEF Marked
      <4>3. (got[r] + 1) + 0 = got[r] + 1
        BY <3>0
      <4> QED BY <3>0, <4>1, <4>2, <4>3
    <3> QED BY <3>1, <3>2
  <2> QED BY <1>7, <2>1 DEF Marked
<1>9. RingInv'
  <2>1. /\ Marked(r) + 1 \in Nat /\ InRing(Marked(r) + 1)
        /\ ChunkOf(Marked(r) + 1) = ridx[r]
    BY <1>1, <1>4, NextInRing
  <2>2. \A n \in Nat : InRing(n)' = InRing(n) /\ ChunkOf(n)' = ChunkOf(n)
    BY <1>2 DEF InRing, ChunkOf, Behind
  <2>3. /\ readBy'[ridx[r]] = readBy[ridx[r]] \cup {r}
        /\ \A c \in Chunks : c # ridx[r] => readBy'[c] = readBy[c]
    BY <1>2, <1>5
  <2>4. ASSUME NEW n \in Nat, InRing(n)
        PROVE  /\ written[ChunkOf(n)]
               /\ data[ChunkOf(n)] = n
               /\ readBy'[ChunkOf(n)] = {q \in Readers : Marked(q)' >= n}
    <3>1. /\ written[ChunkOf(n)] /\ data[ChunkOf(n)] = n
          /\ readBy[ChunkOf(n)] = {q \in Readers : Marked(q) >= n}
      BY <1>1, <2>4 DEF RingInv
    <3>2. CASE n = Marked(r) + 1
      <4>1. Marked(r)' >= n
        BY <1>3, <1>8, <3>2
      <4>2. {q \in Readers : Marked(q)' >= n} = {q \in Readers : Marked(q) >= n} \cup {r}
        BY <1>8, <4>1
      <4> QED BY <2>1, <2>3, <3>1, <3>2, <4>2
    <3>3. CASE n # Marked(r) + 1
      <4>1. ChunkOf(n) # ridx[r] /\ ChunkOf(n) \in Chunks
        BY <1>1, <2>1, <2>4, <3>3, RingChunks
      <4>2. Marked(r)' >= n <=> Marked(r) >= n
        BY <1>3, <1>8, <3>3
      <4>3. {q \in Readers : Marked(q)' >= n} = {q \in Readers : Marked(q) >= n}
        BY <1>8, <4>2
      <4> QED BY <2>3, <3>1, <4>1, <4>3
    <3> QED BY <3>2, <3>3
  <2>5. ASSUME NEW q \in Readers
        PROVE  /\ ridx'[q] = Behind(published - Marked(q))'
               /\ Marked(q)' <= published
               /\ published <= Marked(q)' + MaxChunks
               /\ ~written[widx] => published < Marked(q)' + MaxChunks
    <3>1. /\ ridx[q] = Behind(published - Marked(q)) /\ Marked(q) <= published
          /\ published <= Marked(q) + MaxChunks
          /\ ~written[widx] => published < Marked(q) + MaxChunks
      BY <1>1 DEF RingInv
    <3>2. CASE q = r
      <4> DEFINE m == Marked(r)
      <4>0. /\ MaxChunks \in Nat /\ published \in Nat /\ m \in Nat /\ m < published
            /\ published <= m + MaxChunks /\ Marked(r)' = m + 1 /\ published' = published
            /\ ~written[widx] => published < m + MaxChunks
        BY <1>2, <1>3, <1>4, <1>8, <3>1, <3>2
      <4> HIDE DEF m
      <4>1. PICK d \in 1 .. MaxChunks : d = published - m
        BY <4>0
      <4>2. published' - Marked(r)' = d - 1
        BY <4>0, <4>1
      <4>3. NextChunk(Behind(d)) = Behind(d - 1)
        BY <1>3, BehindReader
      <4>4. Behind(published - Marked(r))' = Behind(d - 1)
        BY <1>2, <4>2 DEF Behind
      <4>5. ridx'[r] = Behind(published - Marked(r))'
        BY <1>7, <3>1, <3>2, <4>1, <4>3, <4>4 DEF m
      <4>6. /\ Marked(r)' <= published /\ published <= Marked(r)' + MaxChunks
            /\ ~written[widx] => published < Marked(r)' + MaxChunks
        <5>1. m + 1 <= published /\ published <= (m + 1) + MaxChunks
          BY <4>0
        <5>2. ~written[widx] => published < (m + 1) + MaxChunks
          BY <4>0
        <5> QED BY <4>0, <5>1, <5>2
      <4> QED BY <3>2, <4>5, <4>6
    <3>3. CASE q # r
      BY <1>2, <1>7, <1>8, <3>1, <3>3 DEF Behind
    <3> QED BY <3>2, <3>3
  <2>6. /\ published < MaxChunks => widx = published
        /\ \A c \in Chunks : c >= published => ~written[c]
        /\ wpc \in {"fill", "clear"} => ~written[widx]
        /\ wpc = "clear" => data[widx] = published + 1
    BY <1>1 DEF RingInv
  <2>7. UNCHANGED <<written, data, published, wpc, widx>>
    BY <1>2
  <2>8. \A n \in Nat : InRing(n)' =>
           /\ written'[ChunkOf(n)']
           /\ data'[ChunkOf(n)'] = n
           /\ readBy'[ChunkOf(n)'] = {q \in Readers : Marked(q)' >= n}
    BY <2>2, <2>4, <2>7
  <2> QED BY <2>5, <2>6, <2>7, <2>8 DEF RingInv
<1>10. LocalInv'
  <2> SUFFICES ASSUME NEW q \in Readers
               PROVE  /\ rpc'[q] = "flag" /\ ~rflag[q] /\ written[ridx'[q]] => Marked(q)' < published
                      /\ rpc'[q] \in {"read", "mark"} => Marked(q)' < published
                      /\ rpc'[q] = "mark" => copy'[q] = Marked(q)' + 1
                      /\ rpc'[q] = "recv" => Marked(q)' \in large
    BY <1>2 DEF LocalInv
  <2>1. CASE q = r
    <3>1. rpc'[r] = "recv" => copy[r] \in large
      BY <1>2, <1>5
    <3> QED BY <1>4, <1>7, <1>8, <2>1, <3>1
  <2>2. CASE q # r
    BY <1>1, <1>7, <1>8, <2>2 DEF LocalInv
  <2> QED BY <2>1, <2>2
<1>11. WakeInv'
  <2> SUFFICES ASSUME NEW q \in Readers, rpc'[q] = "poll" \/ (rpc'[q] = "flag" /\ rflag[q])
               PROVE  Marked(q)' >= published \/ q \in pinged \/ wpc \in {"send", "notify", "failed"}
    BY <1>2 DEF WakeInv
  <2>1. q # r
    BY <1>7
  <2> QED BY <1>1, <1>7, <1>8, <2>1 DEF WakeInv
<1>12. SocketInv'
  <2>1. /\ SentUpTo' = SentUpTo /\ SentUpTo \in Nat
        /\ wpc \in {"send", "failed"} => published \in large /\ published > 0
        /\ \A q \in Readers : \A i \in 1 .. Len(socket[q]) : socket[q][i] \in 1 .. published
    <3>1. UNCHANGED <<published, wpc>>
      BY <1>2
    <3>2. SentUpTo' = SentUpTo
      BY <3>1, Zenon DEF SentUpTo
    <3>3. /\ wpc \in {"send", "failed"} => published \in large /\ published > 0
          /\ \A q \in Readers : \A i \in 1 .. Len(socket[q]) : socket[q][i] \in 1 .. published
      BY <1>1 DEF SocketInv
    <3> QED BY <1>1, <3>2, <3>3, SentIsNat
  <2>2. ASSUME NEW q \in Readers \ lost
        PROVE  Pending(socket[q], got'[q], large, SentUpTo)
    <3>1. /\ Pending(socket[q], got[q], large, SentUpTo)
          /\ socket[q] \in Seq(Nat) /\ got[q] \in Nat /\ large \in SUBSET Nat
      BY <1>1 DEF SocketInv, Types
    <3>2. CASE q = r /\ copy[r] \notin large
      <4>1. got'[r] = got[r] + 1 /\ got[r] + 1 \notin large
        <5>1. got' = [got EXCEPT ![r] = @ + 1]
          BY <1>2, <3>2
        <5>2. copy[r] = got[r] + 1
          BY <1>4
        <5> QED BY <1>5, <3>2, <5>1, <5>2
      <4>2. got[r] + 1 <= SentUpTo
        <5>1. wpc \in {"send", "failed"} => got[r] + 1 # published
          BY <2>1, <4>1
        <5>2. published \in Nat /\ got[r] \in Nat /\ got[r] < published
          BY <1>3, <1>4
        <5>3. CASE wpc \in {"send", "failed"}
          <6>1. SentUpTo = published - 1
            BY <5>3 DEF SentUpTo
          <6> QED BY <5>1, <5>2, <5>3, <6>1
        <5>4. CASE wpc \notin {"send", "failed"}
          <6>1. SentUpTo = published
            BY <5>4 DEF SentUpTo
          <6> QED BY <5>2, <6>1
        <5> QED BY <5>3, <5>4
      <4> QED BY <2>1, <3>1, <3>2, <4>1, <4>2, PendingSkip
    <3>3. CASE q # r \/ copy[r] \in large
      <4>1. got'[q] = got[q]
        BY <1>2, <1>7, <3>3
      <4> QED BY <3>1, <4>1
    <3> QED BY <3>2, <3>3
  <2>3. ASSUME NEW q \in Readers \ lost
        PROVE  Pending(socket[q], got[q], large, SentUpTo)'
    <3>1. UNCHANGED <<socket, large>> /\ SentUpTo' = SentUpTo
      BY <1>2, <2>1
    <3>2. Pending(socket'[q], got'[q], large', SentUpTo')
      BY <2>2, <3>1
    <3> QED BY <3>2, Zenon DEF Pending
  <2> QED BY <1>2, <2>1, <2>3 DEF SocketInv
<1> QED BY <1>6, <1>9, <1>10, <1>11, <1>12 DEF IInv


\* Once the chunk is given back, leaving dequeue disturbs only the sockets.
LEMMA ReaderReturns ==
    ASSUME IInv, NEW r \in Readers, rpc[r] = "recv", NEW to \in {"idle", "stopped"},
           rpc' = [rpc EXCEPT ![r] = to], got' = [got EXCEPT ![r] = @ + 1],
           UNCHANGED <<chunkVars, large, pinged, writerVars, localVars>>
    PROVE  /\ RingInv' /\ LocalInv' /\ WakeInv'
           /\ rpc' \in [Readers -> {"idle", "flag", "poll", "woken", "read", "mark", "recv",
                                    "stopped"}]
           /\ got' \in [Readers -> Nat]
<1>1. Types /\ RingInv /\ LocalInv /\ WakeInv
  BY DEF IInv
<1>2. UNCHANGED <<written, readBy, data, large, pinged, published, wpc, widx, ridx, rflag, copy>>
  BY DEF chunkVars, writerVars, localVars
<1>3. /\ rpc \in [Readers -> {"idle", "flag", "poll", "woken", "read", "mark", "recv", "stopped"}]
      /\ got \in [Readers -> Nat]
  BY <1>1 DEF Types
<1>4. /\ rpc'[r] = to /\ got'[r] = got[r] + 1 /\ got[r] \in Nat
      /\ \A q \in Readers \ {r} : rpc'[q] = rpc[q] /\ got'[q] = got[q]
  BY <1>3
<1>5. \A q \in Readers : Marked(q)' = Marked(q)
  <2>1. Marked(r)' = Marked(r)
    BY <1>4 DEF Marked
  <2> QED BY <1>4, <2>1 DEF Marked
<1>6. RingInv'
  <2>1. /\ wpc \in {"fill", "clear"} => ~written[widx]
        /\ wpc = "clear" => data[widx] = published + 1
    BY <1>1 DEF RingInv
  <2> QED BY <1>1, <1>2, <1>5, <2>1, RingStable
<1>7. LocalInv'
  BY <1>1, <1>2, <1>4, <1>5 DEF LocalInv
<1>8. WakeInv'
  BY <1>1, <1>2, <1>4, <1>5 DEF WakeInv
<1> QED BY <1>3, <1>6, <1>7, <1>8

\* Taking a message from a socket leaves only published messages there.
LEMMA TakenFromSocket ==
    ASSUME Types, SocketInv, NEW r \in Readers, socket[r] # <<>>,
           socket' = [socket EXCEPT ![r] = Tail(@)]
    PROVE  \A q \in Readers : \A i \in 1 .. Len(socket'[q]) : socket'[q][i] \in 1 .. published
<1> SUFFICES ASSUME NEW q \in Readers, NEW i \in 1 .. Len(socket'[q])
             PROVE  socket'[q][i] \in 1 .. published
  OBVIOUS
<1>1. socket \in [Readers -> Seq(Nat)]
  BY DEF Types
<1>2. socket'[r] = Tail(socket[r]) /\ \A p \in Readers \ {r} : socket'[p] = socket[p]
  BY <1>1
<1>3. CASE q = r
  <2>1. socket[r] \in Seq(Nat) /\ i \in 1 .. Len(Tail(socket[r]))
    BY <1>1, <1>2, <1>3
  <2>2. i + 1 \in 1 .. Len(socket[r]) /\ Tail(socket[r])[i] = socket[r][i + 1]
    BY <2>1, TailElement, Zenon
  <2>3. socket[r][i + 1] \in 1 .. published
    BY <2>2 DEF SocketInv
  <2> QED BY <1>2, <1>3, <2>2, <2>3, Zenon
<1>4. CASE q # r
  BY <1>2, <1>4 DEF SocketInv
<1> QED BY <1>3, <1>4

\* Receiving the message that did not fit.
LEMMA RecvInv ==
    ASSUME IInv, NEW r \in Readers, Recv(r)
    PROVE  IInv'
<1>1. Types /\ LocalInv /\ SocketInv
  BY DEF IInv
<1>2. /\ rpc[r] = "recv" /\ socket[r] # <<>>
      /\ socket' = [socket EXCEPT ![r] = Tail(@)]
      /\ rpc' = [rpc EXCEPT ![r] = "idle"] /\ got' = [got EXCEPT ![r] = @ + 1]
      /\ ret' = [ret EXCEPT ![r] = Head(socket[r])]
      /\ UNCHANGED <<chunkVars, large, pinged, writerVars, localVars>>
      /\ UNCHANGED shutdown /\ lost' = lost
  BY DEF Recv
<1>3. /\ RingInv' /\ LocalInv' /\ WakeInv'
      /\ rpc' \in [Readers -> {"idle", "flag", "poll", "woken", "read", "mark", "recv",
                               "stopped"}]
      /\ got' \in [Readers -> Nat]
  BY <1>2, ReaderReturns
<1>4. /\ socket \in [Readers -> Seq(Nat)] /\ got \in [Readers -> Nat] /\ large \in SUBSET Nat
      /\ socket[r] \in Seq(Nat) /\ got[r] \in Nat /\ published \in Nat
  BY <1>1 DEF Types
<1>5. Head(socket[r]) \in Nat /\ Tail(socket[r]) \in Seq(Nat)
  BY <1>2, <1>4
<1>6. Types'
  <2>1. ret' \in [Readers -> Nat] /\ socket' \in [Readers -> Seq(Nat)]
    BY <1>1, <1>2, <1>4, <1>5 DEF Types
  <2> QED BY <1>1, <1>2, <1>3, <2>1 DEF Types, chunkVars, writerVars, localVars
<1>7. /\ socket'[r] = Tail(socket[r]) /\ got'[r] = got[r] + 1
      /\ \A q \in Readers \ {r} : socket'[q] = socket[q] /\ got'[q] = got[q]
  BY <1>2, <1>4
<1>8. SocketInv'
  <2>1. /\ SentUpTo' = SentUpTo /\ SentUpTo \in Nat /\ UNCHANGED <<published, wpc, large>>
        /\ wpc \in {"send", "failed"} => published \in large /\ published > 0
    <3>1. UNCHANGED <<published, wpc, large>>
      BY <1>2 DEF writerVars
    <3>2. SentUpTo' = SentUpTo
      BY <3>1, Zenon DEF SentUpTo
    <3>3. wpc \in {"send", "failed"} => published \in large /\ published > 0
      BY <1>1 DEF SocketInv
    <3> QED BY <1>1, <3>1, <3>2, <3>3, SentIsNat
  <2>2. \A q \in Readers : \A i \in 1 .. Len(socket'[q]) : socket'[q][i] \in 1 .. published
    BY <1>1, <1>2, TakenFromSocket
  <2>3. ASSUME NEW q \in Readers \ lost
        PROVE  Pending(socket'[q], got'[q], large, SentUpTo)
    <3>1. Pending(socket[q], got[q], large, SentUpTo)
      BY <1>1 DEF SocketInv
    <3>2. CASE q = r
      <4>1. got[r] + 1 \in large
        BY <1>1, <1>2, <1>4 DEF LocalInv, Marked
      <4> QED BY <1>2, <1>4, <1>7, <2>1, <3>1, <3>2, <4>1, PendingHead
    <3>3. CASE q # r
      BY <1>7, <3>1, <3>3
    <3> QED BY <3>2, <3>3
  <2>4. ASSUME NEW q \in Readers \ lost
        PROVE  Pending(socket[q], got[q], large, SentUpTo)'
    <3>1. Pending(socket'[q], got'[q], large', SentUpTo')
      BY <2>1, <2>3
    <3> QED BY <3>1, Zenon DEF Pending
  <2> QED BY <1>2, <2>1, <2>2, <2>4 DEF SocketInv
<1> QED BY <1>3, <1>6, <1>8 DEF IInv

\* Losing a message that did not fit, on its way or to an exception: nothing
\* more is said of the reader's socket.
LEMMA MessageLost ==
    ASSUME IInv, NEW r \in Readers, RecvTimesOut(r) \/ RecvFails(r)
    PROVE  IInv'
<1>1. Types /\ SocketInv
  BY DEF IInv
<1>2. /\ rpc[r] = "recv" /\ lost' = lost \cup {r} /\ got' = [got EXCEPT ![r] = @ + 1]
      /\ rpc' = [rpc EXCEPT ![r] = "idle"] \/ rpc' = [rpc EXCEPT ![r] = "stopped"]
      /\ UNCHANGED <<chunkVars, large, pinged, writerVars, localVars>>
      /\ UNCHANGED <<shutdown, ret>>
      /\ \/ socket' = socket
         \/ socket[r] # <<>> /\ socket' = [socket EXCEPT ![r] = Tail(@)]
  BY DEF RecvTimesOut, RecvFails, socketVars
<1>3. /\ RingInv' /\ LocalInv' /\ WakeInv'
      /\ rpc' \in [Readers -> {"idle", "flag", "poll", "woken", "read", "mark", "recv",
                               "stopped"}]
      /\ got' \in [Readers -> Nat]
  BY <1>2, ReaderReturns
<1>4. /\ Types'
      /\ \A q \in Readers \ {r} : socket'[q] = socket[q]
  <2>1. socket \in [Readers -> Seq(Nat)]
    BY <1>1 DEF Types
  <2>2. ASSUME socket[r] # <<>>, socket' = [socket EXCEPT ![r] = Tail(@)]
        PROVE  /\ socket' \in [Readers -> Seq(Nat)]
               /\ \A q \in Readers \ {r} : socket'[q] = socket[q]
    <3>1. Tail(socket[r]) \in Seq(Nat)
      BY <2>1, <2>2
    <3> QED BY <2>1, <2>2, <3>1
  <2>3. socket' \in [Readers -> Seq(Nat)] /\ \A q \in Readers \ {r} : socket'[q] = socket[q]
    BY <1>2, <2>1, <2>2
  <2> QED BY <1>1, <1>2, <1>3, <2>3 DEF Types, chunkVars, writerVars, localVars
<1>5. SocketInv'
  <2>1. /\ SentUpTo' = SentUpTo /\ UNCHANGED <<published, wpc, large>>
        /\ wpc \in {"send", "failed"} => published \in large /\ published > 0
        /\ \A q \in Readers : \A i \in 1 .. Len(socket'[q]) : socket'[q][i] \in 1 .. published
    <3>1. \A q \in Readers : \A i \in 1 .. Len(socket'[q]) : socket'[q][i] \in 1 .. published
      BY <1>1, <1>2, TakenFromSocket DEF SocketInv
    <3>2. UNCHANGED <<published, wpc, large>>
      BY <1>2 DEF writerVars
    <3> QED BY <1>1, <3>1, <3>2 DEF SentUpTo, SocketInv
  <2>2. \A q \in Readers \ lost' : /\ got'[q] = got[q] /\ socket'[q] = socket[q]
                                   /\ q \in Readers \ lost
    BY <1>1, <1>2, <1>4 DEF Types
  <2>3. \A q \in Readers \ lost : Pending(socket[q], got[q], large, SentUpTo)
    BY <1>1 DEF SocketInv
  <2>4. ASSUME NEW q \in Readers \ lost'
        PROVE  Pending(socket[q], got[q], large, SentUpTo)'
    <3>1. /\ Pending(socket[q], got[q], large, SentUpTo)
          /\ got'[q] = got[q] /\ socket'[q] = socket[q]
      BY <2>2, <2>3
    <3>2. Pending(socket'[q], got'[q], large', SentUpTo')
      BY <1>2, <2>1, <3>1
    <3> QED BY <3>2, Zenon DEF Pending
  <2> QED BY <1>2, <2>1, <2>4 DEF SocketInv
<1> QED BY <1>3, <1>4, <1>5 DEF IInv

\* shutdown touches nothing the invariant speaks of, and neither does a
\* stuttering step.
LEMMA ShutdownInv ==
    ASSUME IInv,
           \/ \E r \in Readers : SetShuttingDown(r) \/ Cancel(r)
           \/ UNCHANGED vars
    PROVE  IInv'
<1>1. Types /\ RingInv /\ LocalInv /\ WakeInv /\ SocketInv
  BY DEF IInv
<1>2. /\ UNCHANGED <<written, readBy, data, large, socket, pinged, published, wpc, widx>>
      /\ UNCHANGED <<rpc, ridx, rflag, copy, got, ret, lost>>
  BY DEF SetShuttingDown, Cancel, vars, chunkVars, socketVars, writerVars, localVars, resultVars
<1>3. shutdown' \in [Readers -> {"no", "set", "sent"}]
  BY <1>1 DEF Types, SetShuttingDown, Cancel, vars
<1>4. Types'
  BY <1>1, <1>2, <1>3 DEF Types
<1>5. \A r \in Readers : Marked(r)' = Marked(r)
  BY <1>2 DEF Marked
<1>6. RingInv'
  <2>1. /\ wpc \in {"fill", "clear"} => ~written[widx]
        /\ wpc = "clear" => data[widx] = published + 1
    BY <1>1 DEF RingInv
  <2> QED BY <1>1, <1>2, <1>5, <2>1, RingStable
<1>7. LocalInv' /\ WakeInv'
  BY <1>1, <1>2, <1>5 DEF LocalInv, WakeInv
<1>8. SocketInv'
  BY <1>1, <1>2, <1>4, SocketStable
<1> QED BY <1>4, <1>6, <1>7, <1>8 DEF IInv

-------------------------------------------------------------------------------
(* Results *)

\* Every step keeps the invariant.
LEMMA NextInv ==
    ASSUME IInv, [Next]_vars
    PROVE  IInv'
<1>1. CASE \E fits \in BOOLEAN : Enqueue(fits)
  BY <1>1, QuietWriterSteps
<1>2. CASE WriterStep
  BY <1>2, AcquireWriteInv, QuietWriterSteps, PublishInv, SendLargeInv, NotifyInv DEF WriterStep
<1>3. ASSUME NEW r \in Readers, ReaderStep(r)
      PROVE  IInv'
  BY <1>3, LookingSteps, MarkReadInv, RecvInv DEF ReaderStep
<1>4. CASE \E r \in Readers : Cancel(r)
  BY <1>4, ShutdownInv
<1>5. CASE Mishap
  BY <1>5, QuietWriterSteps, SendFailsInv, LookingSteps, MessageLost, ShutdownInv DEF Mishap
<1>6. CASE UNCHANGED vars
  BY <1>6, ShutdownInv
<1> QED BY <1>1, <1>2, <1>3, <1>4, <1>5, <1>6 DEF Next

\* The inductive invariant: the last MaxChunks messages are in the ring with
\* exactly the flags of the readers that have them, no reader is lapped, and
\* the sockets hold what the readers still have to receive.
THEOREM Invariance == Spec => []IInv
<1>1. IInv /\ [Next]_vars => IInv'
  BY NextInv
<1> QED BY InitInv, <1>1, PTL DEF Spec

\* Flow control, for any number of readers, chunks and messages: acquire_write
\* never touches a chunk that is being read, and at most MaxChunks + 1 messages
\* wait on a socket.
THEOREM FlowIsControlled == Spec => []FlowControl
<1>1. IInv => FlowControl
  <2> SUFFICES ASSUME IInv, NEW r \in Readers
               PROVE  /\ rpc[r] \in {"read", "mark"} /\ ridx[r] = widx =>
                            wpc \notin {"fill", "clear"}
                      /\ r \notin lost => Len(socket[r]) <= MaxChunks + 1
    BY DEF FlowControl
  <2>1. Types /\ RingInv /\ LocalInv /\ SocketInv
    BY DEF IInv
  <2>2. /\ MaxChunks \in Nat /\ published \in Nat /\ widx \in Chunks
        /\ Marked(r) \in Nat /\ got[r] \in Nat /\ Marked(r) <= got[r] + 1
    BY <2>1, Numbers
  <2>3. ASSUME rpc[r] \in {"read", "mark"}, ridx[r] = widx
        PROVE  wpc \notin {"fill", "clear"}
    <3>1. Marked(r) < published
      BY <2>1, <2>3 DEF LocalInv
    <3>2. written[ridx[r]]
      BY <2>1, <3>1, FlagsTell
    <3> QED BY <2>1, <2>3, <3>2 DEF RingInv
  <2>4. ASSUME r \notin lost
        PROVE  Len(socket[r]) <= MaxChunks + 1
    <3>1. Pending(socket[r], got[r], large, SentUpTo)
      BY <2>1, <2>4 DEF SocketInv
    <3>2. /\ socket[r] \in Seq(Nat) /\ large \in SUBSET Nat
          /\ SentUpTo \in Nat /\ SentUpTo <= published
      <4>1. socket[r] \in Seq(Nat) /\ large \in SUBSET Nat
        BY <2>1 DEF Types
      <4> QED BY <2>1, <4>1, SentIsNat
    <3>3. Len(socket[r]) <= SentUpTo - got[r]
      BY <2>2, <3>1, <3>2, PendingShort
    <3>4. published <= Marked(r) + MaxChunks
      BY <2>1 DEF RingInv
    <3>5. Len(socket[r]) \in Nat
      BY <3>2
    <3>6. SentUpTo - got[r] <= MaxChunks + 1
      BY <2>2, <3>2, <3>4
    <3> DEFINE len == Len(socket[r])
               behind == SentUpTo - got[r]
    <3>7. len \in Nat /\ behind \in Int /\ len <= behind /\ behind <= MaxChunks + 1
      BY <2>2, <3>2, <3>3, <3>5, <3>6
    <3> HIDE DEF len, behind
    <3>8. len <= MaxChunks + 1
      BY <2>2, <3>7
    <3> QED BY <3>8 DEF len
  <2> QED BY <2>3, <2>4
<1> QED BY Invariance, <1>1, PTL

\* No wake-up is lost between the flags and SpinCondition.wait, for any number
\* of readers, chunks and messages.
THEOREM NoWakeupIsLost == Spec => []NoLostWakeup
<1>1. IInv => NoLostWakeup
  <2> SUFFICES ASSUME IInv, NEW r \in Readers, rpc[r] = "poll",
                      written[ridx[r]], r \notin readBy[ridx[r]]
               PROVE  r \in pinged \/ wpc \in {"send", "notify", "failed"}
    BY DEF NoLostWakeup
  <2>1. Types /\ RingInv /\ WakeInv
    BY DEF IInv
  <2>2. published \in Nat /\ Marked(r) \in Nat /\ Marked(r) < published
    BY <2>1, Numbers, FlagsTell
  <2>3. ~(Marked(r) >= published)
    BY <2>2
  <2> QED BY <2>1, <2>3 DEF WakeInv
<1> QED BY Invariance, <1>1, PTL


\* Every step of the queue is a step of Broadcast or none: dequeue returns every
\* message once and in order to every reader that has not lost one half way,
\* and enqueue is at most MaxChunks messages ahead.
THEOREM QueueRefinesBroadcast == Spec => ImplementsBroadcast
<1>1. Init => B!Init
  BY DEF Init, B!Init
<1>2. ASSUME IInv, [Next]_vars
      PROVE  [B!Next]_(B!vars)
  <2>1. Types /\ RingInv /\ LocalInv /\ SocketInv
    BY <1>2 DEF IInv
  <2>2. /\ MaxChunks \in Nat /\ published \in Nat
        /\ \A r \in Readers : /\ got[r] \in Nat /\ Marked(r) \in Nat
                              /\ Marked(r) <= got[r] + 1
                              /\ Marked(r) <= published
    BY <2>1, Numbers DEF RingInv
  <2>3. CASE Publish
    <3>1. wpc = "clear" /\ published' = published + 1 /\ UNCHANGED <<got, ret, lost>>
      BY <2>3 DEF Publish, Message, resultVars
    <3>2. \A r \in Readers : published < Marked(r) + MaxChunks
      BY <2>1, <3>1 DEF RingInv
    <3>3. ASSUME NEW r \in Readers PROVE published <= got[r] + MaxChunks
      <4>1. /\ got[r] \in Nat /\ Marked(r) \in Nat /\ Marked(r) <= got[r] + 1
            /\ published < Marked(r) + MaxChunks
        BY <2>2, <3>2
      <4> QED BY <2>2, <4>1
    <3> QED BY <3>1, <3>3 DEF B!Publish, B!Next
  <2>4. ASSUME NEW r \in Readers, MarkRead(r)
        PROVE  [B!Next]_(B!vars)
    <3>1. /\ rpc[r] = "mark" /\ UNCHANGED <<published, lost>>
          /\ \/ UNCHANGED <<got, ret>>
             \/ /\ got' = [got EXCEPT ![r] = @ + 1]
                /\ ret' = [ret EXCEPT ![r] = copy[r]]
      BY <2>4 DEF MarkRead, writerVars, resultVars
    <3>2. Marked(r) < published /\ copy[r] = Marked(r) + 1 /\ Marked(r) = got[r]
      <4>1. rpc[r] # "recv"
        BY <3>1
      <4>2. Marked(r) = got[r]
        BY <2>1, <4>1, ReaderFacts
      <4>3. Marked(r) < published /\ copy[r] = Marked(r) + 1
        BY <2>1, <3>1 DEF LocalInv
      <4> QED BY <4>2, <4>3
    <3>3. CASE UNCHANGED <<got, ret>>
      BY <3>1, <3>3 DEF B!vars
    <3>4. CASE /\ got' = [got EXCEPT ![r] = @ + 1]
               /\ ret' = [ret EXCEPT ![r] = copy[r]]
      <4>1. got[r] < published /\ copy[r] = got[r] + 1 /\ copy[r] \in 1 .. published
        BY <2>2, <3>2
      <4>2. CASE r \in lost
        <5>1. B!DeliverAny(r)
          BY <3>1, <3>4, <4>1, <4>2 DEF B!DeliverAny
        <5> QED BY <5>1 DEF B!Next
      <4>3. CASE r \notin lost
        <5>1. B!Deliver(r)
          BY <3>1, <3>4, <4>1, <4>3 DEF B!Deliver
        <5> QED BY <5>1 DEF B!Next
      <4> QED BY <4>2, <4>3
    <3> QED BY <3>1, <3>3, <3>4
  <2>5. ASSUME NEW r \in Readers, Recv(r)
        PROVE  [B!Next]_(B!vars)
    <3>1. /\ rpc[r] = "recv" /\ socket[r] # <<>> /\ UNCHANGED <<published, lost>>
          /\ got' = [got EXCEPT ![r] = @ + 1]
          /\ ret' = [ret EXCEPT ![r] = Head(socket[r])]
      BY <2>5 DEF Recv, writerVars
    <3>2. /\ Marked(r) = got[r] + 1 /\ Marked(r) \in large
          /\ got[r] \in Nat /\ got[r] < published
      <4>1. /\ got[r] \in Nat /\ published \in Nat /\ Marked(r) = got[r] + 1
            /\ Marked(r) <= published
        BY <2>1, <3>1, ReaderFacts
      <4>2. Marked(r) \in large
        BY <2>1, <3>1 DEF LocalInv
      <4> QED BY <4>1, <4>2
    <3>3. socket[r] \in Seq(Nat) /\ large \in SUBSET Nat
      BY <2>1 DEF Types
    <3>4. CASE r \in lost
      <4>1. 1 \in 1 .. Len(socket[r]) /\ Head(socket[r]) = socket[r][1]
        BY <3>1, <3>3
      <4>2. Head(socket[r]) \in 1 .. published
        BY <2>1, <4>1 DEF SocketInv
      <4>3. B!DeliverAny(r)
        BY <3>1, <3>2, <3>4, <4>2 DEF B!DeliverAny
      <4> QED BY <4>3 DEF B!Next
    <3>5. CASE r \notin lost
      <4>1. Pending(socket[r], got[r], large, SentUpTo)
        BY <2>1, <3>5 DEF SocketInv
      <4>2. SentUpTo \in Nat
        BY <2>1, SentIsNat
      <4>3. got[r] + 1 \in large /\ socket[r] # <<>>
        BY <3>1, <3>2
      <4>4. Head(socket[r]) = got[r] + 1
        BY <3>2, <3>3, <4>1, <4>2, <4>3, PendingHead
      <4>5. B!Deliver(r)
        BY <3>1, <3>2, <3>5, <4>4 DEF B!Deliver
      <4> QED BY <4>5 DEF B!Next
    <3> QED BY <3>4, <3>5
  <2>6. ASSUME NEW r \in Readers, RecvTimesOut(r) \/ RecvFails(r)
        PROVE  [B!Next]_(B!vars)
    <3>1. /\ rpc[r] = "recv" /\ UNCHANGED <<published, ret>> /\ lost' = lost \cup {r}
          /\ got' = [got EXCEPT ![r] = @ + 1]
      BY <2>6 DEF RecvTimesOut, RecvFails, writerVars
    <3>2. got[r] < published
      <4>1. /\ got[r] \in Nat /\ published \in Nat /\ Marked(r) = got[r] + 1
            /\ Marked(r) <= published
        BY <2>1, <3>1, ReaderFacts
      <4> QED BY <4>1
    <3>3. B!Miss(r)
      BY <3>1, <3>2 DEF B!Miss
    <3> QED BY <3>3 DEF B!Next
  <2>7. CASE \/ \E fits \in BOOLEAN : Enqueue(fits)
             \/ AcquireWrite \/ FillChunk \/ SendLarge \/ Notify \/ WriteTimesOut \/ FillFails
             \/ SendFails \/ UNCHANGED vars
    BY <2>7 DEF Enqueue, AcquireWrite, FillChunk, SendLarge, Notify, WriteTimesOut, FillFails,
                SendFails, vars, writerVars, resultVars, B!vars
  <2>8. ASSUME NEW r \in Readers,
               \/ ClearFlag(r) \/ ReadFlag(r) \/ Cancelled(r) \/ FindChunk(r) \/ Wait(r)
               \/ PollReturns(r) \/ ReadChunk(r) \/ DequeueTimesOut(r) \/ PollTimesOut(r)
               \/ ReadFails(r) \/ SetShuttingDown(r) \/ Cancel(r)
        PROVE  UNCHANGED B!vars
    BY <2>8 DEF ClearFlag, ReadFlag, Cancelled, FindChunk, Wait, PollReturns, ReadChunk,
                DequeueTimesOut, PollTimesOut, ReadFails, SetShuttingDown, Cancel, Goes,
                writerVars, resultVars, B!vars
  <2> QED BY <1>2, <2>3, <2>4, <2>5, <2>6, <2>7, <2>8
          DEF Next, WriterStep, ReaderStep, Mishap
<1>3. B!Init /\ [][B!Next]_(B!vars) => ImplementsBroadcast
  BY DEF ImplementsBroadcast, B!Spec
<1> QED BY Invariance, <1>1, <1>2, <1>3, PTL DEF Spec
===============================================================================
