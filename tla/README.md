# metaRTC in TLA+

This directory holds TLA+ models of the parts of metaRTC whose behaviour depends
on order: two threads that share a packet cache, packets that come late or
never, a sequence number that turns, a session that is torn down while its
threads run, calls that come at once, messages from the application while it
closes. TLC checks the models on small instances; TLAPS proves the most
important results for every instance. The repository's code under `src/` is the
reference: each definition of a model stands for the lines `PROJECT.json`
("map") names.

Paths below are relative to `src/libmetartccore4/src/` (the C core) or
`src/libmetartc4/src/` (the C++ layer around it).

## 1. The system

A **publisher** encodes frames, cuts them into RTP packets, protects them with
SRTP and sends them over UDP. A **player** receives packets, asks for the
missing ones (RTCP NACK), puts frames together and hands them to a decoder. A
**session** joins both: one UDP socket with a receiving thread, a timer, a DTLS
handshake for the SRTP keys. A server (SRS, ZLM) or another metaRTC is the peer.
Above this, in C++, the application posts **messages** to a thread that connects and
disconnects, rings of frames (**media buffers**) join the threads of a pipeline, a
player times audio and video by a **synchronising buffer**, and a **peer-to-peer**
server takes calls of other peers.

### Components, their state and their operations

| component | code | state | operations | modelled in |
|---|---|---|---|---|
| Resend cache and RTP ring | `yangrtc/YangRtcPublishStream.c`, `yangrtp/YangPublishNackBuffer.c`, `yangrtp/YangRtpBuffer.c`, `yangrtc/YangRtcConnection.c` | ring of packet buffers and its index, sequence counters, table of entries that point into the ring | encode, cache, protect, send; look up and send again on a NACK | `PublishNack` |
| NACK list of the receiver | `yangrtp/YangRtpRecvNack.c`, `yangrtp/YangReceiveNackBuffer.c`, `yangrtc/YangRecvTrack.c`, `yangutil/sys/YangMath.c` | range of numbers seen, ordered list of missing numbers with times and retries, retry interval | update with an arrived number, insert, remove, expire, flush, collect what is due, new round trip time | `RecvNack`, `SeqArith` |
| RTCP NACK codec | `yangrtp/YangRtcpNack.c` | the numbers of a message, its chunks | add, encode, decode | `NackCodec` |
| H.264 receive track | `yangrtc/YangH264RecvTrack.c`, `YangVideoRecvTrack.c` | circle of packet entries, header and first lost number, key-frame marks | on RTP (key and other packets), search, hand on, clear | `H264Recv` |
| H.264 packetiser | `yangrtc/YangH264RtpEncode.c` | none of its own | STAP-A, single NALU, FU-A | `H264Recv` (packets of a frame), `PublishNack` (slots) |
| Session and its threads | `yangrtc/YangRtcSession.c`, `YangUdpHandle.c`, `YangRtcDtls.c`, `YangPeerConnection.c`, `yangutil/sys/YangCTimer.c` | connection state, active flag, handshake state, SRTP contexts, start and loop flags of two threads, repeat counter | start, handshake steps, packet dispatch, timer task, flight repetition, teardown | `RtcSession` |
| H.265 track and packetiser | `yangrtc/YangH265*.c` | as H.264 | as H.264 | no |
| Play stream, audio, reports, TWCC | `yangrtc/YangRtcPlayStream.c`, `yangrtp/YangRtcp*.c` | counters, the packet ring | on RTP, reports, TWCC codec | arrival only |
| Packet codecs | `yangrtp/YangRtpHeader.c`, `YangRtcpCompound.c` ... | none | encode, decode | no |
| Peer-to-peer signalling | `yangp2p/YangP2pServer.c`, `YangP2pConnection.c`, C++ `yangp2p/YangP2pRtc.cpp`, `YangP2pHandleImpl.cpp` | accepted socket, the one publisher, list of peers, list of peers to remove | accept, answer, call, publish, remove | `P2p` |
| Media buffers | C++ `yangutil/buffer/YangMediaBuffer.cpp` ... | ring of frames, put and get index, size | put, get, peek, reset | `MediaBuffer`, `FrameQueue` |
| Audio and video synchronisation | C++ `yangstream/YangSynBuffer.cpp` | time bases, clocks, counters of late and early | play, hold, drop, discard, reset | `SynBuffer` |
| Application's messages | C++ `yangutil/YangSysMessageHandle.cpp` | list of messages, condition and its mark, loop flag | put, handle, stop | `SysMessage` |
| Publish thread, stream handles | C++ `yangpush/YangRtcPublish.cpp`, `YangPushHandleImpl.cpp`, `YangPushMessageHandle.cpp`, `yangstream/YangStream*.c`, `yangrtc/YangRtcHandle.c` | the publisher, its list of streams, the stream's mark and session, the thread's flags | connect, disconnect, publish loop, close | `PushPublish` |
| Player, recorder, capture, devices, codecs | C++ layer | flags and threads like the above | | no |
| Signalling over HTTP, SDP, STUN | `yangsdp/`, `yangsrs/`, `yangzlm/`, `yangrtc/YangRtcStun.c` | none after a call | parse, format, request | no |
| Data channel, RTMP, SRT, applications, vendored code | several | of other libraries | | no |

### How they interact

* The application's thread calls the peer connection: it creates the session
  (`yang_srs_startRtc` starts the UDP thread) and destroys it.
* The publisher's thread calls `yang_send_avpacket` for each packet the encoder
  has written into the ring: the packet is put in the resend cache, protected in
  place and sent.
* The UDP thread is the only receiver. It dispatches STUN, DTLS, RTP and RTCP.
  STUN starts the handshake and, with it, the DTLS thread; RTP goes to the play
  stream, which updates the NACK list, sends NACKs and feeds the H.264 track;
  a NACK from the peer makes it read the resend cache **on its own thread**.
* The timer's thread, started by the UDP thread, sends STUN requests and
  receiver reports every second.
* The encoder's threads put frames into media buffers; the publisher's thread takes
  them, looks at the list of streams and publishes to the last one.
* The application posts messages; the message thread makes and destroys publisher,
  stream and session. When the application closes, its own thread does.
* In a peer-to-peer process one thread accepts calls, one thread per call answers
  it, one publishes to all peers and removes those that left, and each peer has its
  UDP thread, whose callbacks ask for the removal.
* Where there is a lock at all (media buffers, the message condition, the list of peers
  to remove) it covers a part of what is shared. Threads are stopped by a flag, and
  waited for by polling another flag.

### What is hard, and what makes a component correct

| hard behaviour | correctness |
|---|---|
| publisher and UDP thread on one cache and ring, without a lock; the cache's and the ring's periods differ, and neither divides 65536 | what is sent again is the packet asked for, for as long as the ring holds it; recent packets are found |
| numbers turn; packets are lost, late, or older than the first | the list is exactly what is missing, in order; what is due is asked for |
| a message of 16-bit masks carries a list across the turn | nothing else is asked for, the oldest number always is |
| packets of several frames in any order in a circle with stale entries | frames handed on are whole and in order, and none that is there is held back |
| a teardown at any moment of three running threads | nothing freed is used, keys are there before media, the teardown ends |
| a ring whose size is tested before the lock, and reset without it | frames come out once, in order; no index leaves the ring |
| times that jump and start again, frames that come late, polls that come late | no frame is held for ever; what is played is as far apart as its times say |
| messages put while the thread that handles them goes to sleep or is being stopped | each is handled, in order; closing ends |
| streams and publishers freed beside the thread that publishes | what is freed is not used |
| calls that come at once, peers that leave while others come | one publisher; the right peers are freed, and all of them; each call is answered |

The full list, each item at its line, is under "hazards" in `PROJECT.json`.

## 2. The modules

**`PublishNack`** has one queue of the publish stream (video or audio). A packet
has a number `n` that only the model knows; the program knows `sequence`. `Encode`
writes it into the next slot of the ring, `CacheNack` is
`yang_rtcpublish_cache_nack` (free the entry at `seq % capacity`, put a new one),
`Protect` and `Send` are the rest of `yang_send_avpacket`. The UDP thread's
`RecvNack`, `Fetch`, `EndOfNack`, `ProtectAgain` and `SendAgain` are
`yang_rtcpublish_on_recv_nack` with `yang_send_nackpacket`. The atomic steps are the
accesses to memory both threads use. An entry freed while the UDP thread holds it
reads as before or as the entry that took its memory (`stale`). SRTP protection is
a toggle of the payload: the key stream depends only on the source and the number.

**`SeqArith`** has the arithmetic of 16-bit numbers (`Distance` is
`yang_rtp_seq_distance`) and the ordered insertion the NACK list and the NACK
message share (`Place`, `Spliced`).

**`RecvNack`** has `yang_recvtrack_on_nack` and all it calls: `OnListed` for a number
on the list, `OnUnlisted` with `Update2` (the range), `Inserted`, the full list that
throws away everything, and `CheckSendNacks`, the scan for numbers to ask for
with its removal of expired ones, its early stop, and its habit to skip the number
after a removed one. `UpdateRtt` changes the interval. `received`, `gone` and `base`
are history.

**`NackCodec`** collects, encodes and decodes any list of numbers. A mask is the set
of its ones; the difference of two numbers is an `int`, as in the code, so it is
negative across the turn.

**`H264Recv`** has the receive track: `OnKeyPacket` and `OnOtherPacket` (the two
branches of `yang_h264recv_on_rtp`), `FindNextLost`, `Complete`, and `Packed` with
`Onward` for `yang_h264recv_packet_video` and its recursion. The packets come from
metaRTC's own packetiser (`PacketsOf`). The state of the stream is fixed in `Init`
(which packets the sender produces does not depend on the receiver) and `Arrive`
delivers any packet not yet received, at most `Reorder` behind the newest; one that
never arrives is lost. `upset` names the events the track does not recover from
before its next key frame; each is a real weakness, listed as a hazard:

* `early`: the first packet of a key frame clears packets newer than it;
* `stap`: parameter sets arrive after their frame was handed on;
* `key`: a packet of an older key frame arrives after a newer one;
* `old`: a packet from before the current frame stays in its entry, and is taken for
  the packet one turn of the circle later;
* `full`: a packet takes the entry of one that still waits;
* `zero`: `lost_sn` is 0 before the first key frame, and number 0 is taken for it.

**`RtcSession`** has four threads. The application's thread connects and runs
`yang_destroy_rtcsession` step by step; the UDP thread runs
`yang_run_rtcudp_thread` and one handler at a time, split where another thread can see
the difference; the timer's and the DTLS thread are their loops. Memory that is freed
stays readable in the model, and the use is recorded in `touched`, so that a run
explores what follows. `missed` records a thread that had not set its start flag when
it was told to stop, `caught` that the session was marked inactive under a packet's
handler.

**`MediaBuffer`** is the ring of `YangMediaBuffer` with any number of producers, one
consumer and the thread that resets it (`yang_reindex`). `PutCheck` and `GetCheck` are
the tests before the lock, `PutTake`, `PutCopy`, `PutDone` and `GetTake`, `GetDone` the
steps under it, `Peek` reads the next frame's time without it, `Release` ends the use of a
reference, `ResetPut`, `ResetGet` and `ResetSize` are the assignments of a reset, which takes no
lock. The size is unsigned and turns below zero. **`FrameQueue`** is what the ring
promises: a bounded first-in first-out queue that refuses a frame when it is full.
`IsAQueue` says that the first implements the second from each reset nobody coincided with to
the next one, or to the next frame of a producer that was overtaken between its test and
its lock (`whole`).

**`P2p`** has the thread that accepts (`Accept` writes the one field `connFd`), the threads
that answer (`ReadConnFd` to `Answer`), the application's own call, the publisher's
thread (`Publisher`) and each peer's UDP thread (`Udp`). An actor is whoever sets up a
call; the peer, the publisher object and the publisher's thread it creates have its
name. `push_back` reads the list of peers and writes it. `m_pushs.at` throws past the end
of the list, so `Erase` has no step there: the thread goes no further. `torn`,
`overlapped` and `touched` are history.

**`SynBuffer`** has every decision about the frame at hand: `FirstPoll` (the buffer is
emptied), `Drop` (too late), `Hold` (too early), `PlayVideo`, `PlayAudio`, and `Discard` (two
audio frames thrown away when the buffer stays long), with the base and the clock each of
them moves. A behaviour is of audio or of video: they share only the clock.

**`SysMessage`** has the list of messages, the condition and its mark. `Post`, `Push`,
`TestWait` and `Signal` are `putMessage`; `Begin` to `Erase` the loop of the message
thread; `StopLoop` to `StopWait` the destructor. `push_back` and `erase` read the list and
write it, and no lock covers both, so that of two at once one is lost (`torn`). What
a message does is left open. **`PushPublish`** extends it with what connect and disconnect
do: the steps of `stopPublish` and `publish` (`Enters` to `StartThread`), done by the
message thread, or by the application's when it deletes the handle, and the
publisher's loop (`Start` to `Disconnected`). A publisher has the number of the message that made
it; what is freed stays readable and its use is recorded.

**`PublishNackProofs`**, **`NackCodecProofs`**, **`RecvNackProofs`**, **`RtcSessionProofs`**,
**`MediaBufferProofs`**, **`SynBufferProofs`**, **`PushPublishProofs`** (with the theorems about
`SysMessage`) and **`P2pProofs`** hold the proofs (section 4). `RecvNackProofs` extends
`NackCodecProofs` for its lemmas on ordered lists and folds, which is why the specification of
`NackCodec` is called `CodecSpec`.

`SeqArith` is extended by `RecvNack`, `NackCodec` and `H264Recv`. Operators named
`X_Something` after a comment "A mutant of the next" are faulty variants of the
definition that follows; they show that a property would notice that fault and
no specification uses them.

## 3. The runs

| run | question | bounds |
|---|---|---|
| `publish` | Is only the packet asked for sent again, are recent packets found, are freed entries old? | space 7, cache 4, ring 5, 13 packets, 2 numbers per NACK |
| `publish_stale_slot` | Does an entry always point to a packet with its number? **No.** | space 6 |
| `publish_twice` | Is the same payload sent again? **No.** | same |
| `nack_in_order` | Is the list the missing numbers in order, is all that is due asked for? | space 16, 8 packets, 4 out of order, clock 4 |
| `nack_gives_up` | Is a missing number listed unless given up, with early packets, full lists, expiry, duplicates? | 6 packets, list of 4, 1 retry |
| `nack_codec` | What does a message carry? | all lists of up to 5 numbers within 14, masks of 4 bits |
| `h264` | Are frames whole, in order, not held back? | circle of 4, 4 frames of up to 3 fragments (a key frame has parameter sets too), 8 packets, 3 out of order |
| `session` | Keys before media, no use of freed objects, teardown ends | 2 repeats of a flight, 3 turns of the loop that repeats it |
| `media_buffer` | Is the ring a queue, is the frame peeked at the next one, does a reference stay good? | ring of 2, 2 producers, sizes modulo 4 |
| `p2p` | One publisher, only peers that left freed, each of them, none used after; each call answered | 2 callers and one call of the application's; 2 calls once two have overlapped |
| `syn_buffer` | Is a frame held for ever, are frames played as far apart as their times say? | steps of 2 and 5, back by 4, times up to 9, clock 5, buffer of 3, limits of 1 |
| `push` | Are messages handled, in order; does closing end; is what is freed used? | 2 messages of one thread, so up to 2 publishers |

Runs marked **No** are expected to be violated: a comment of the code, or of a
library it uses, says otherwise. They are the findings in `PROJECT.json`.

**Why the bounds are enough.** What matters in each model is a proportion. In
`PublishNack` the cache does not divide the space (7 = 4 + 3, as 65536 = 65 * 1000 +
536), the ring is a little longer than the cache, and 13 packets are nearly two
turns of the number, so every entry is replaced across the turn, and both threads
meet in every order. With space 6 an entry outlives its packet. In `RecvNack` the
numbers turn after a few packets, the list fills, numbers expire, and half the
space is more than the reordering, as it is in the program. In `NackCodec` lists reach
over three masks and the turn. In `H264Recv` the circle is passed twice, a key frame
fills it, and the turn of the number is in the middle of the stream; the properties
were also checked once with a circle of 8 and packets up to 4 out of order. In
`RtcSession` only the repeats and the turns of their loop are bounded, as in the code (24 and 512), and the
proofs are for any bound. In
`MediaBuffer` a ring of two frames wraps and fills at once, and sizes modulo 4 turn below
zero; a ring of 3 with sizes modulo 5 was checked once (8.4 million states), and the proofs are for
any ring. In `P2p` three peers are enough for one that comes, one that leaves and one
that is called, and two calls for every race of two; once two calls overlap no third begins, or
the states would be too many. In `SynBuffer` limits and cache times are small and the
times long enough that frames come late, early and in time after each move of the
base; the proofs are for all values. In `PushPublish` two messages make two publishers, the
second while the first is being stopped; the safety properties were also checked once with three messages
(4.7 million states) and with two posting threads, and they are proved for any number.

**Deadlock** is not checked where the system may stop: all packets have arrived
(`H264Recv`), the message is decoded (`NackCodec`), the session is gone (`RtcSession`), a ring's
size has turned below zero and every thread is refused (`MediaBuffer`), all have called and
left (`P2p`), the clock is at its bound (`SynBuffer`), the program has crashed or is closed
(`PushPublish`).
`PublishNack` and `RecvNack` are checked for deadlock.

**Fairness.** Safety needs none. `TearDownEnds` assumes that each thread is scheduled
again and again: `recvfrom` returns after 200 ms, the timer's wait after 1 s, the
waits for a flag sleep 1 ms. It is weak fairness for each thread, and for the
teardown once `g_yang_pc_disconnectServer` has begun; nobody is bound to disconnect and
no packet is bound to arrive. `LeftIsFreed` and `AcceptedIsAnswered` assume weak fairness of each
thread that answers, of each peer's UDP thread and of the publisher's, whose loop sleeps and
goes on; other peers need not call nor say goodbye, and the application need not
act. `EveryPostIsHandled` and `CloseEnds` assume it of each thread that has begun to put a
message, of the message thread, of the thread that closes and of the publishers' threads;
frames, the server's answer and the application's calls need not come.

**What the session run shows, and what it excepts.** A timer or UDP thread that ran
when it was stopped uses nothing freed. The exceptions are the hazards of the code:
a thread that was started but had not set its flag yet is not waited for; a stop
between the start flag and the loop flag is overwritten, and the teardown then
waits for ever (`StopIsLost`); the streams are freed before the UDP thread is
stopped, under a handler that may still be at work (`caught`); the socket is closed
after the thread has said it has ended; the DTLS thread is not waited for at all, so
nothing is claimed for it.

**What the other runs with races except.** Each exception is a state the code can reach,
named in the property and listed as a hazard.

* `p2p`: a publisher that waits for itself, since a peer's alert callback takes the mutex
  under which the publisher erases that peer (`stuck`); two peers of one publisher with one
  uid, two publisher's threads, a peer no thread serves (`Served`), all three only after two
  calls overlapped: each made a publisher, and the thread was started for the first, which
  sets `m_isInitRtc` for both, so that a peer of the second is never freed; a peer added while one was
  erased (`torn`); a connection whose thread read `connFd` too late.
* `syn_buffer`: a pair whose second frame is the first after a move of the base, a reset or a
  discard, or is played without being judged, as in a discard and after the first poll (`fresh`).
* `push`: a publisher's thread that had found the mark set before it was cleared
  (`caught`), or had not said that it loops when it was deleted (`missed`); two threads
  in the list at once (`torn`) or in the handle at once (`crossed`); a message put just
  before the thread slept, with no mark seen (`overlooked`); a stop that the loop overwrites, or that
  comes while the thread goes to sleep (`stopLost`); a message thread that waits for a
  publisher whose stop was overwritten (`StopIsLost`).

## 4. The proofs

All are checked by `tlapm` for every value of the constants that the modules'
assumptions allow: a cache smaller than the sequence space and a ring no longer than it
(`ConstantsOK` of `PublishNack`; 1000 or 100 entries and at most 1400 slots in the code), any
number of repeats and of turns (`ArqMaxOK`), numbers of one NACK less than half a turn apart
(`CodecOK`), any thresholds, times and lengths of the receiver's list (`ConstantsOK` of
`RecvNack`), a value for "nobody" that is nobody's name (`NoneIsNoActor`), and cache times no longer
than the windows frames are judged by (`CacheOK` of `SynBuffer`). This last one rests on the values
`YangSynBuffer.h:19-24` gives (35 and 35 ms, 5 and 25 ms): `setVideoCacheTime` would take any time,
but nothing in the repository calls it.

**`PublishNackProofs`**: `TypeCorrect`, `AskedPacketResent`, `RecentPacketCached` and
`FreedWhenOld`. `AskedPacketIsResent` is not inductive: when the UDP thread sends, it has only a pointer. The invariant follows
the pointer back. `RingInv`: the packet `a` steps older than the newest is `a` slots
behind the index. `QueueInv`: an entry found under the number of a packet in the ring
points to that packet's slot, although other entries may point anywhere. `NackInv`: a
number of the NACK is the one of the packet it is about. `HeldInv`: the entry the UDP
thread holds points to the slot of the packet asked for while that packet is in the
ring. `Encode` disturbs the ring, and the lemmas `BehindNext` and `BehindInjective` say
how positions on a circle move; `CacheNack` disturbs the queue; `Fetch` makes `HeldInv`
from `QueueInv` and `NackInv`.
The last two rest on how far apart packets that share a place of the cache are (at least
`MinKept`, which is less than the cache's length, since across the turn places are
shifted). `FreedOnlyWhenOld` needs `AskedInv` as well: the entry the UDP thread holds has the
number of the packet it was asked for until the counter has turned, so whoever frees that entry
puts a packet at least `MinKept` newer in its place.

**`RtcSessionProofs`**:

* `TypeCorrect`;
* `KeysFirst`: by `KeysInv`, which says at each place of the handshake which SRTP
  context exists;
* `TimerSafe` and `UdpSafe`, two consequences of one invariant. `FlagsInv` ties the flags to the threads' places (and the timer is not
  started before the UDP thread is past its start); `FreedInv` says what is freed at each place of
  the teardown; `TimerInv` and `StoppedInv` say that a thread that ran has ended where
  the teardown has passed its wait; `InactiveInv` says that no packet's handler is at
  work once the session is inactive, unless one was when it was marked. Then a step of
  a thread either uses nothing freed or belongs to a thread that was missed or caught.

**`MediaBufferProofs`**: `TypesHold`, `PeekedFrameIsNext`, `ReferenceStaysGood` and `BufferIsAQueue`. The
invariant: `LockInv` (who is under the lock), `IndexInv` (put and get index are `size` apart,
corrected for a put or get under way, while `whole`), `ResetInv` and `AgreeInv` (what a
reset in progress and the threads' local slots have to do with the indices), `RefInv` (a
reference's slot is the one before the get index, and is overwritten last). The refinement maps
each step to one of `FrameQueue` or a stutter: only `PutDone` and `GetTake`, and the end of a
reset, move the queue.

**`SynBufferProofs`**: `TypesHold`, `HoldsAreBounded`, `PlayedEvenly`. `HeldInv` ties the number of polls
that held the frame to the counter of early polls, which `Hold` resets by moving the
base to the frame at hand, whereupon it is in time. `WindowInv` says that the frame played last
was within the window of the base it was played by, and `OneLast` that there is at most one.

**`PushPublishProofs`**: of the message thread alone, `MsgTypesHold` and `OrderHolds`. `ListInv`:
while no two changes of the list collided, what was handled and what is on the list, one after
the other, are what was put. `NumberInv`: a message's number is its own.
`PublishingHandlesMessages` is the refinement: publishing's specification implies that of the
message thread, whose theorem on the order carries over (`MessagesInOrder`). `PushTypesHold` and `FreedIsSafe` rest on `PushInv`: one thread at a time is in
the handle (`AloneInv`) and what it works on is `m_pub` (`HeldInv`); a publisher is made for a message
that none was made for, which needs `NumberInv` and `ListInv` (`FreshInv`); once a stream's mark is
cleared it stays so, and every thread past it was counted (`MarkInv`); a session being
destroyed has a thread that destroys it (`DyingInv`); a thread that loops is told so until somebody
waits for it (`RunInv`), hence it has ended when its publisher is freed, or was missed
(`MissedInv`). `FreedIsNotUsed` alone is not inductive: it does not say where threads may be.

**`P2pProofs`**: `TypeCorrect`, `OnePublisherHolds`, `FreedPeersAreNotUsed` and `FreedHaveLeft`, by
one invariant. `OnePublisher` looks at publishers and uids that are already there, and does
not say who is about to make the next one. `AloneInv` does: until two calls overlap, one actor
at most is busy, the uid it has read is above all others, and a thread that publishes was
started by whoever has set `m_isInitRtc`, or is about to. `PlaceInv` says that what a thread
has at hand is there (a publisher, a list, a peer), `ConnInv` that a connection was accepted before
its thread runs. `LeftInv` follows a uid from the peer that left to the list of peers to
remove and to the place at which the publisher's thread waits for that peer.
`CleanInv`: while no addition was torn by a removal and one thread publishes, a peer is
in one place of one list until it is freed, so erasing that place takes the freed peer
off, and nobody finds it again. `ListedInv`: a peer on a list is of that list's publisher, so two with
one uid on it are what `SameUid` speaks of. `TypeCorrect` needs `PlaceInv`, since the threads step
through lists others shorten.

**`NackCodecProofs`**: `OnlyMissingAsked`, `OldestAsked` and `LeftOutOnlyBetween`: what the three loops of
the codec do to a list of any length. The loops are folds over the positions of a list, and
the prover cannot instantiate an induction rule for a property given as an operator. So
the induction is on sets of numbers (`Induction`, from `Least`): it gives that the function
by which a fold is defined exists (`Iteration`), and that what holds of one position's
result holds of the next one's. For the encoder that is `Scanned`: each chunk is made of
numbers up to this position, each of those is carried or left out for the reason
`LeftOutBetweenChunks` gives, and the first chunk begins with the first number. `ScanStep`
proves it with `TurnedOnce` and `NoReturn`: in a list in order the turn is crossed once and numbers
do not fall back into an earlier mask. The decoder collects what the chunks ask
for (`DecodedFacts`), and keeps the oldest in front, since its insertion (`PlaceFacts`,
`AddedFacts`) goes by distances, which on less than half a turn are an order
(`AheadOrders`). The invariant of the specification then only says that the list is in
order and that the other variables are what the codec makes of it.

**`RecvNackProofs`**: `ListTypesHold` for every behaviour; the other properties of the list each
twice, for a stream of up to half a turn of the numbers (`NothingForgotten`, `ShortListInOrder`,
`ShortListedMissing`, `ShortAllDueAsked`), and for a stream of any length that comes in time
(`NothingForgottenInTime`, `ListInOrder`, `ListedMissing`, `AllDueAsked`). The properties speak of
packets, the code of remainders, which it compares by the shorter way round. So none of them is
inductive: nothing in them says that two listed numbers are close enough to be compared. The
invariant is about the newest packet `E` that the buffer has seen, which the code has only as
`end - 1`:

* `Known(E)`: each packet from `base` to `E` arrived, was given up, or is listed and less than half a
  turn older than `E`; what is listed, and where the buffer begins, are numbers from `base` to `E`.
* `Ordered(E)`: the list is in order, all of it less than half a turn older than `E`. Then insertion
  puts a gap at the end of the list, and only there.
* `Absent(E)`: nothing that arrived is on the list, and no packet newer than `E` arrived.
* `Aged(list)`: numbers were listed in the order of the list, so behind the first young one all are
  young, and the scan may stop there.

What the folds over a gap and over the list do comes first (`InsertedFacts`, `InsertedLast`,
`GetFacts`, `AskedAll`), by the induction over their turns that `NackCodecProofs` has. `UnlistedFacts` then reduces the
handler to a list `infos` before the check (`Opened`), the check removes and marks (`CheckLeft`), and each
part of the invariant has one lemma for each.

The hypotheses are about what the network does; the code does not enforce them. TLC has
checked once that every behaviour of the run `nack_in_order` satisfies all of them:

* `InTime`: a packet newer than all others comes less than half a turn after every number still
  listed. A number is given up when it is checked after 1000 ms or 10 requests, so this asks for fewer than
  32768 packets in about that time. Without it a comparison goes the wrong way round, and the code has nothing
  against that. In a short stream it need not be assumed (`ShortInTime`).
* `4 * Reorder <= SeqSpace`: a packet comes at most 16384 packets late, or ahead.
* `NoneEarly`: no packet that is not listed comes from before what the buffer begins with. Such a packet makes
  `yang_nackbuffer_update2` list a range in front of others, the packet itself included. It can be one
  older than the first, or one whose number was given up. Without it the order, `ListedIsMissing` and `DueIsAsked` are lost:
  TLC finds each violated with `Early = TRUE` (the hazard at `YangReceiveNackBuffer.c:134`); `MissingIsListed` does not need it.
* `FreshStart`: after a full list was thrown away the stream goes on with a newer packet; an older one
  starts a range that contains packets that had arrived.
* `NoneExpired`, for `DueIsAsked` only: the scan passes over the number after one it gives up, which
  then is asked for at the next check.

**Only model-checked:**

* liveness (`TearDownEnds`, `LeftIsFreed`, `AcceptedIsAnswered`, `EveryPostIsHandled`, `CloseEnds`): liveness
  under fairness is outside the prover's reach;
* all of `H264Recv`. The frame handed on is found by a recursion around a circle whose result depends on
  every entry, stale ones included, and what a handed frame is (the type of `delivered` in `TypeOK`
  already) follows only from an invariant about the whole circle. The events that break that
  invariant (`upset`) go on being possible, so it would have to say for each of them what is still
  true after it. `WholeFrames`, `FramesInOrder` and `NothingHeldBack` compare histories of frames on top of that.

## 5. What is not modelled

The reason for each part is its note in `PROJECT.json`. Within modelled parts:

* payload bytes, except the one the receiver mistakes for a slice's type;
* the server's role in a session, the data channel, builds without DTLS (except for
  duplicates and plain payloads, which have a constant `HaveDtls`);
* failing system calls, apart from a failed send in `PublishNack` and any failed call of the thread that
  repeats a DTLS flight;
* the inside of libsrtp and OpenSSL, which two threads use without a lock;
* several sessions in one process and the static counters they share (the
  certificate's in `YangRtcContext.c:31` is changed without a lock);
* `P2p`: messages of the data channel, `stopPublish` and the destructors (`stop()` clears the
  flag the destructor looks at), the race on the local port's counter, a descriptor
  number that is used again, starting the decoder, a second `connectPeer` while one is up, more than
  one disconnection by the application;
* `SynBuffer`: the narrowing of times to 32 bits, what is lost in the division by the codec's
  clock, a reset while a poll is under way;
* `MediaBuffer`: the ring of audio samples and the preview buffers, classes of their own;
* `PushPublish`: changes of the video source, recording, the capture threads, RTMP; the state
  that the session's UDP thread may set once more while the session is destroyed; the list's size and
  the mark of its last entry are read in one step;
* weak memory: flags are read and written as if they were atomic.

Some statements of comments are known to be untrue and have no run: the turns of the highest
number are not counted when packets arrive in order (`YangReceiveNackBuffer.c:125`, against
"Increase one when uint16 flip back" in the header); a number that does not fit into
a mask opens no new chunk and is left out of the message (`YangRtcpNack.c:147`,
`LeftOutBetweenChunks` says which); packets older than the first put the NACK list out of
order; the first packet of a late key frame clears newer packets.

## 6. Plan

1. Done: the loss recovery on both sides, the message between them, the frames
   built from what arrives, the session's threads, media buffers, synchronisation,
   peer-to-peer calls, the application's messages and the publish thread.
2. Next modules, in this order:
   * the packetiser's cutting of frames (a frame of no packet), and `TwccCodec`;
   * the player's threads, as `PushPublish` has the publisher's;
   * `H265Recv`, if a comparison of the files shows a difference in control;
   * several sessions on `RtcSession`'s certificate counter;
   * closing of a peer-to-peer handle.
3. Abstract specifications: a resend service (a request is answered with that packet or
   not at all), implemented by `PublishNack`; a loss detector (a set of
   missing numbers) implemented by `RecvNack` under in-order arrival of the first packet.
4. Theorems: the refinement of the abstract specifications of item 3, for which
   `AskedPacketResent`, `NothingForgotten` and `ListedMissing` hold the arguments; then an invariant of
   `H264Recv` that includes the stale entries of its circle, and its `TypeOK`.

## 7. Running

    tlc -config PublishNack.cfg PublishNack.tla
    tlapm PublishNackProofs.tla

Each configuration is named after its module, with the question it asks appended.
