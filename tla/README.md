# Topos video player: a TLA+ model of its threads and queues

This directory models the core of the player in `src/source`, in three layers:

* the sync objects (`system/util/sync.c`) and the message queue built on them
  (`system/util/queue.c`), through which the threads talk;
* one playback session: the five worker threads and the user thread that commands
  them (`vid_decode.c`, `vid_worker.c`, `vid_input.c`, `vid_seek_engine.c`), how a seek
  is handed from one to the other access by access, and how the threads are started
  and stopped (`vid_lifecycle.c`);
* the way of the data: packet cache, decoder, image ring and textures, and how a
  seek empties them without a lock (`decoder_demux.c`, `decoder_video_soft.c`,
  `vid_worker.c`, `vid_draw.c`).

TLC checks them on small instances. TLAPS proves, for every number of threads, every
capacity and every history, the properties of the queue, of the sync objects, of each
ring and of the path through all of them, of the life cycle, the sub-states of the
session and the order of its seeks.

## 1. Inventory

| component | files | state it keeps | operations | model |
|---|---|---|---|---|
| message queue | `system/util/queue.c` | items, `deleting`, `reference_count`, two wake-up events | create, add (front, no duplicates, time limit), get, delete | `UtilQueue`, `MessageQueue` |
| decode thread | `vid_decode.c` 168-1436 | `vid_player.state`, `sub_state`, `is_eof`, `natural_eof_session_held`, `is_read_packet_thread_active`, `is_waiting_video_decoder` | nine commands, nine notices, feeding of packets, the seek wave | `VidSession` |
| read thread, packet cache | `vid_decode.c` 1438-1556, `decoder_demux.c` | cached packets, file position, `dd_io_abort` | read, seek, abort | `VidSession`; the cache: `PacketRing` |
| audio thread | `vid_decode.c` 1558-1682 | its queue (the only one that fills up) | decode, seek, abort | `VidSession` |
| video thread | `vid_worker.c` 459-672 | decoder slot, raw images | decode, clear, abort | `VidSession`; the images: `ImageRing` |
| convert thread | `vid_worker.c` 674-1221 | `should_convert`, textures | convert, clear, abort, buffering and starvation notices | `VidSession`; images and textures: `ImageRing`, `FrameRing` |
| seek engine | `vid_seek_engine.c` | `seek_pos`, `seek_pos_cache`, `seek_queued_pos_ms`, `seek_request_deferred` | drag, commit, step, preview, submit | commit and submit, in `SeekEngine` (`VidSession` has submit as one or two steps) |
| user input | `vid_input.c`, `vid_hid.c`, `vid_panel*.c` | pending file, pressed keys | open, toggle, seek, abort, panel navigation | the four that post commands, in `VidSession` |
| user command ring | `vid_cmd.c` | 128-entry ring | push (evicting drags), pop, reset | not modelled: one thread fills, empties and resets it within a frame |
| life cycle | `vid_lifecycle.c`, `main.c` | `inited`, `thread_run`, thread handles | init, exit, suspend | `Lifecycle` (not suspend) |
| drawing, A/V sync | `vid_draw.c`, `vid_sync.c`, `vid_texture.c`, `vid_screen.c` | frame ring (`next_store_index`, `next_draw_index`), delays | draw, upload, measure | `FrameRing` (the ring) |
| locks, threads | `util/sync.c`, `util/fake_pthread.c` | owner, `ref_count` | create, lock, wait, signal, destroy, once | `UtilSync` (not `fake_pthread`) |
| speaker | `util/speaker.c` | wave buffers | add, pause, clear | not modelled |
| decoders | `util/decoder*.c` | slots, raw-image rings | decode, get image, skip | `PacketRing`, `ImageRing` (software video) |
| conversion, services | `converter.c`, `log.c`, `hid.c`, `file.c`, `draw.c`, `sem.c`, ... | - | - | not modelled |

How they interact: the user thread posts commands to `decode_thread_command_queue`;
the decode thread posts requests to the queues of the other four; each of them
answers with notices on `decode_thread_notification_queue`. `vid_player.state` is
written by the decode thread alone and read by everybody without a lock.

What is hard here: every message is acted upon in a state that may not be the one
its sender saw; commands overtake each other (`QUEUE_OPTION_SEND_TO_FRONT`); an
abort throws notices away while it waits; notices carry no number that says which
seek they belong to; one queue can be full; the wake-up of a queue is an event
that is signalled and cleared by several threads. `PROJECT.json` lists each hazard
at its line.

What makes each component correct:

* queue: nothing lost, doubled or reordered; never freed under a thread; nobody
  sleeps while what he waits for is there; delete ends;
* seek engine: seeks are done in the order they were made, the newest in the end, and
  they come to an end;
* rings: what goes in comes out in order and once; two threads never use the same slot;
  what is on the screen is not written to and never goes back;
* a seek: no thread is in a ring while another clears it, and nothing of before the
  seek comes out after it;
* sync objects: the counts that guard the freeing are exact, the owner of a lock has
  it, and nobody waits for himself;
* life cycle: workers run until they are told to end, nothing they use goes before
  they do, and leaving comes to an end;
* session: flags that block progress always have something under way that clears
  them; the sub-state matches the state; a seek wave and an abort end; the decoder
  is closed and reopened only when nobody is in it; the end is announced only at
  the end.

## 2. Modules

| module | what it is |
|---|---|
| `MessageQueue` | the promise of the queue: a bounded sequence that is opened, accepts and delivers, is closed and disposed of |
| `UtilQueue` | `queue.c` under its global lock; a call that has to wait is two steps, before and after the wait |
| `MCUtilQueue`, `UtilQueue_*.cfg` | two senders, one or two receivers, one or two deleters |
| `UtilQueueProofs` | the theorems about `UtilQueue` |
| `VidSession` | the five threads, the six queues, and a user |
| `MCVidSession`, `Session_*.cfg` | films with and without sound, music, and what the user does |
| `VidSessionProofs` | the theorems about `VidSession` |
| `SeekEngine` | the fields two threads share for a seek, one access per step |
| `MCSeekEngine`, `Seek_*.cfg` | films and music, two or three seeks |
| `SeekEngineProofs` | the theorems about `SeekEngine` |
| `Channel` | the promise of a ring: a bounded sequence, put in, taken out, flushed |
| `Ring` | the index arithmetic of all rings |
| `PacketRing`, `PacketRingProofs` | the packet cache, read thread and decode thread |
| `ImageRing`, `ImageRingProofs` | one track of the software decoder: packet hand-over, decoding, image ring |
| `FrameRing` | the textures of one or two tracks: convert thread, main loop, seek |
| `DataPath`, `PathProofs` | the three together and the seek through them; the theorems about `FrameRing` and `DataPath` |
| `UtilSync`, `UtilSyncProofs` | locks and conditions with owner and reference count |
| `Lifecycle`, `LifecycleProofs` | init thread, workers, exit thread |
| `MCParts`, `Parts.cfg` | small instances of the last four, each behaviour works one of them |

### UtilQueue

`contents`, `live`, `deleting`, `refcount`, `recvEvent` and `sendEvent` are the
fields of `Queue_data`; a message is a call (event id and options) and the number
of the send. A thread is `idle` or at one of the points where the code holds no
lock: waiting in `add` or `get`, woken or timed out there, and the three points of
`delete`. Each action is one critical section of `util_queue_mutex`: `AddNow` is an add that
does not wait, `AddBlock` the part before the wait (it counts itself in
`reference_count`), `AddWake` and `AddTimeout` the wait, `AddResume` the part
after it with every early return; likewise for get and delete. `LightEvent` is a
one-shot event: a wait that succeeds clears it. Waits without a time limit
(`U64_MAX`) are calls whose `AddTimeout` never happens under fairness.

Not modelled: two receivers' data pointers, `Util_queue_check_event_exist` and
`Util_queue_get_free_space` (they only read under the lock), allocation failure
in create (the queue stays closed) and a null queue.

### VidSession

`player` holds the fields of `vid_player` and the flags local to the decode
thread; `queue` the six queues as sequences (`UtilQueue` justifies treating add
and get as atomic); `pc` where each thread stands; `demux` the number of cached
and of unread packets; `user` what the user thread has decided and not yet posted.

The decode thread's loop is `command` (a command, or none) - `requeue` (a deferred
seek may be posted) - `notice` (a notice, or none) - `feed` - `packet`. Each
action is one `case` of the code; a step is split where the code gives another
thread the chance to act on what it left half done: a decision of the user and its post
(`Decide`, `UserPost`), the four waits of an abort, the reopening of the decoder,
the parse of a packet and its hand-over, the look at the state by the convert thread and the use it makes of it.

`PLAY` may find no file waiting (`PlayIgnored`). When there is one, `PlayStart` opens it and
sets `PLAYING` in one step: the code shows `PLAYING` before the file is open
(`vid_decode.c:262`), but no worker has anything to do until the end of it. The play key
does something in `IDLE` only if there is a file name, which an abort has cleared: that is,
while the decode thread has set the name and not yet the state (240-262).

Choices stand for what the model leaves out: how long a call takes, whether a
packet is audio or video or of another track, whether the seek target is passed,
how full the speaker and the raw images are, whether memory is short, whether a
deferred seek is old enough. `ReadsTimeOut` says whether a read may exceed its
8 s limit.

Left out, and why: hardware decoding's wait for the first frame
(`playback_not_started` until then) and `INCREASE_KEEP_RAM`, which change no flag the
properties are about; `SHUTDOWN`, which is an abort followed by the end of the
threads; mp3 pictures, which count as video tracks but have no frame rate; the
HOME menu; and the other-error exit of the read thread (`vid_decode.c:1485-1493`), since
no file is closed under a read. The 200-item queues other than the audio queue never fill: only the
audio queue gets a message per packet without an acknowledgement.

### SeekEngine

`seek_engine_submit` runs in the user thread and shares `seek_pos`,
`seek_queued_pos_ms`, `seek_demux_target_ms`, `seek_request_deferred` and the state
with the decode thread, with no lock; `VidSession` makes each half of that exchange
one step. Here every step is one access that the other thread can come between:
`Commit` (the new position), `Submit` (the look at the state), `Defer` or `Freeze`
and `PostSeek` for the user; `Prepare`, `Reset` and `Issue` for the `SEEK` case,
`LoadPosition` ... `ClearDeferred` for the retry
(`vid_decode_finish_seek_wave_try_deferred`) for the decode thread.

`player` holds the shared fields, `post` is `POST_SEEK_BUFFERING`, `due` says that
100 ms have passed since the wave began, `held` is `natural_eof_session_held`.
A position is the number of the commit that chose it; `file` is the
one the file is positioned for, `user.accepted` (no field of the code) the one the
user last submitted. The audio, video and convert threads are reduced to
the requests they serve (`work`) and the notices they answer with; the chain
through audio, video and convert that `VidSession` follows is one step.

Left out: `PAUSE`, which the code treats like `PLAYING` in all of this; aborts and
opens, that is the session stays open; seeks refused at the very
start (`playback_not_started`), which change nothing. `FileEnds` appends one `PLAY_NEXT` for
each turn of the feed loop, as many as `MaxEnds` at a time.

### PacketRing, ImageRing, FrameRing

Each ring has a thread that puts and a thread that takes, each with an index of its
own. The packet cache and the images also have a count under a lock, the textures have
only the two indices. The slots themselves are used outside the lock, so that every
operation is split where the lock is taken: the look at the count, the use of the
slot and the step of the index, the change of the count. Items are numbers in the order
they were made; a slot is empty or holds one.

* `PacketRing`: `ReadStart`, `ReadFrame` or `ReadFails`, `ReadCount` are
  `DecoderDemux_read_packet`; `ParseStart`, `ParseRoute` or `RouteFails`, `ParseCount` are
  `DecoderDemux_parse_packet`. `PacketsInOrder` says that it implements `Channel`, with
  the sequence of the slots from the take index on as what is inside.
* `ImageRing`: `Route` and `TakeRequest` are the hand-over of a packet between two
  threads by a slot and two messages (`handed`); `DecodeStart` ... `Counted` one call of
  `DecoderVideoSoft_decode` with all its endings, where FFmpeg may take the packet or
  not and give a picture or not; `GetStart` ... `GetCount` a call of `get_image`;
  `WaveStart` ... `Reopen` the CLEAR of a seek. `MaxDelay` pictures may be kept back
  by FFmpeg. `copyFailed` (history) notes that memory ran out in `ready_packet`.
* `FrameRing`: `ConvertLook` computes the health and copies the index, `ConvertStore`
  writes the texture (the real conversion takes milliseconds) and the index;
  `DrawLook` computes the health of all tracks, `DrawAdvance` and `DrawSkip` are the
  turns of the loop over them. The clock is left out: a track may be due or not.
  `raced` (history) notes that a seek emptied the ring in the middle of a draw, which
  the comment at `vid_decode.c:1065` takes to be harmless; the properties of the ring
  hold only without it. `dropped` (history) is the last texture written when a seek emptied
  the ring: `FramesInOrder` says that what comes on the screen is newer than what was
  there, and newer than `dropped`.

The clearing action of each ring (`ClearCache`, `ClearImages`, `ResetRing`) demands that
both its threads are outside. The code has no such guard; that it holds is what
`DataPath` shows.

Left out: side-by-side films, where one picture fills both eyes' textures; the
hardware decoder, which has an image ring of its own of the same shape; the change of the
number of raw images, possible only before the first decode.

### DataPath

One track, from the file to the screen, with five threads, and the seek that visits
them in turn: `SeekPost` (decode thread), `SeekRead` (read thread: seek and clear),
`SeekClear` (decode thread), `FlushStart` and `FlushEnd` (video thread), `SeekImages`
(convert thread), `SeekReopen` (decode thread). Here the clearing steps have only the
guards of the code: a thread takes a message between two turns of its own loop.
`RingsClearedAlone` says that each ring's part of the path is a behaviour of that ring by
itself, that is that its clearing happens with both threads outside. `origin`,
`lastRead` and `lastMade` (history) let `ScreenInOrder` say that nothing of before the
seek appears after it.

Left out: sound; aborts, which close the decoder when all threads have answered
(`VidSession`); a second wave overtaking the first, which is the violation of
`Session_reopen`; reopening that fails.

### UtilSync

One global mutex guards owner and reference count of all objects; the libctru call in
the middle of `lock` and `cond_wait` runs outside it. So `Util_sync_lock` is
`LockBegin`, `LockGot`, `LockEnd` or `LockGiveUp`, and `Util_sync_cond_wait` is
`WaitBegin`, `WaitSleep`, a wake-up (`Signal`, `Broadcast`, `WaitTimeout`), `WaitRelock`,
`WaitEnd`. `holder` and `depth` are the state of the libctru lock, `owner` and `count`
what the code keeps of it. `leaked` (history) counts the references that
`WaitWrongOwner` does not give back. What the callers never do, the model does not
either: destroy an object from two threads at once, or while somebody owns it.

### Lifecycle

The main thread (`Vid_init`, `Vid_exit`), the init thread, the exit thread and the
workers as far as `thread_run` is concerned. `Join(ended)` is `threadJoin` with its time
limit: it returns when the thread has ended or not, and `gaveUp` (history) notes the
latter. The exit thread clears `inited` and posts the shutdown in two steps (`ClearInited`,
`PostShutdown`), and the post may fail after its 100 ms; no worker is then told to end and the joins
give up. Left out: suspend, settings, and the message that is drawn meanwhile.

## 3. Runs

| run | question | result |
|---|---|---|
| `UtilQueue_safety` | counts, memory, duplicates, wake-ups, refinement of `MessageQueue` | holds |
| `UtilQueue_delete` | does delete end with waiters of unlimited patience? | holds |
| `UtilQueue_sendwakeup` | does a sender wait only while the queue is full? | **violated** |
| `Session_safety` | flags, waves and close under every interleaving | holds |
| `Session_progress` | abort and seek wave end (silent films) | holds |
| `Session_abort` | abort ends (music) | **violated** |
| `Session_finished` | is the end announced only at the end? | **violated** |
| `Session_close` | have all threads stopped when an abort closes? | **violated** |
| `Session_reopen` | have all threads stopped when a seek reopens? | **violated** |
| `Seek_order` | are seeks done in order, and do they come to an end? | holds |
| `Seek_last` | is the newest seek the one that is done in the end? | **violated** |
| `parts` | do the rings keep order and slots apart, alone and in a data path with a seek; are the reference counts and owners of the sync objects right; does the player start and end cleanly? | holds |

### What the violations show

* `UtilQueue_sendwakeup`: `Util_queue_add` clears `send_wait_event` after every
  successful add. A get makes room and signals; a third thread adds without waiting and
  clears. A sender whose wait began before misses that wake-up: with space free it sleeps
  on until the next successful get signals again (`queue.c:277`) or its time limit is over.
* `Session_abort`: the audio thread, draining for a seek, pops the `ABORT` posted
  meanwhile, and answers nobody. The decode thread waits for that answer with no
  time limit.
* `Session_finished`: a seek resets `is_eof`, then the `READ_EOF` of the read it
  interrupted sets it again; the cache is empty after the seek, so the player ends
  the file at the position the user asked for.
* `Session_close`: an abort asks read, convert, video, audio in that order. A
  `CLEAR` the video thread is forwarding arrives at the convert thread after it has
  answered. `CloseAlone`, which holds, says that the read and video threads at
  least are out of the decoder.
* `Session_reopen`: `PLAY_NEXT`, queued before a seek that overtakes it at the
  front, takes the player out of the wave; the user seeks again, and the
  first wave's `FINISHED_CLEARING_CACHE` now finds `PREPARE_SEEKING`.
* `Seek_last`: the `SEEK` case sets `PREPARE_SEEKING`, then resets
  `seek_request_deferred`. A user thread that looks at the state in between defers
  its seek, the reset forgets it: the bar shows the new position and the
  film plays from the old one.

### Bounds

`UtilQueue`: two senders, sends with front, no-duplicate and no-wait options, `MaxSends`
and `MaxOpens` bound how often they run. `UtilQueue_safety` and `UtilQueue_sendwakeup`
have capacity 2 (a duplicate beside another message, two adds around one get) and one
receiver, as each queue of the player has; `ReceiveWakeup` is stated for one receiver
only. `UtilQueue_safety` has two deleters and opens the queue twice. `UtilQueue_delete`
has capacity 1 (full and empty are one step apart) and two receivers, so that several
sleepers of either kind are inside; with two deleters and re-creation one deleter can
starve the other, so it has one.

`VidSession`: `MaxPackets` 2 or 3 against 256 in the code - half full, full and
empty are distinct from 2 on, a reader that goes on after a packet from 3 on;
`FileLength` 1: the end of the file is one packet after a seek target, so that it
races everything; `AudioQueueSize` 1 in `Session_safety` so that it is full at once and
the add of an `ABORT` can fail there (only safety is checked), 3 in
`Session_abort` so that it is never full and the violation is not owed to that. The audio
queue of a silent film stays empty, so no run of `AbortEnds` meets the failed add
(`vid_decode.c:791`, a hazard without a property); three
acts of the user, each decided in one state and posted in another;
`MaxRepeats` 1 bounds notices and commands that the code posts again at every turn
(a second copy meets the same handler in a later state, which a delayed first copy
does as well). `Session_safety` has no deadlock check since the player can
hang there, by the defect `Session_abort` shows.

`SeekEngine`: three seeks, as many as the shared fields can hold apart (chosen,
frozen, sought), two where the race needs no third; one `PLAY_NEXT` waiting; `BUFFERED` and
`OUT_OF_BUFFER`, which the code posts every turn, once in the queue at a time. The
200-item queues do not fill: a `SEEK` is never queued twice.

`parts`: rings of three slots, so that one is being filled, one is being emptied and
one is free, and the indices step back to 0 (256 packets, up to 128 images and 4
textures in the code); three packets, images and textures for each, once round the
ring; FFmpeg keeps back one picture; two tracks in the textures, one full while the
other is empty; one seek, since two do not overlap here, and whatever a seek leaves
behind shows in the pictures after it. Three threads with one plain lock, one recursive
lock locked twice and one condition: one sleeps, one signals, one destroys; one
forgotten reference. Five workers as in the code. The parts share no variable, so
each behaviour works one and leaves the rest. Every part stops at its bounds, hence no
deadlock check. The proofs need none of these bounds.

### Fairness

In `UtilQueue`, a thread that was woken or has its lock to take goes on
(`Finish`); nobody is obliged to send, receive or delete, and no time limit is
assumed to expire. In `VidSession` each thread is scheduled (weak fairness), except
that a frame need not ever be decoded: the raw images may stay full while the
picture stands still, so only the way out of that loop (`DecodeGivesUp`) is fair.
`VID_SEEK_WALL_TIMEOUT_MS` elapses while the decode thread comes by again and again:
strong fairness of `WallTimeout`. The user promises nothing. In
`SeekEngine` threads are scheduled and time passes (weak fairness), and a submit that
was begun is ended; strong fairness of `WaveDone` is the same wall-clock limit of a
wave; that of `EndBuffering` says that a player which buffers again and again has, at some
time, enough to go on or the end of the file. In `FrameRing` the main loop runs on (weak
fairness of `DrawLook` and `DrawSkip`, it is driven by the screen), and a frame of each
track falls due over and over (strong fairness of `DrawAdvance`: the time of the next
frame is a finite time ahead). Nothing is assumed of the convert thread: `NoStall` is
about a ring that is full already. In `Lifecycle` the main, init and exit threads go on
once started; nothing is assumed of a worker or of the user. A join that gives up after
its time limit is what makes `ExitEnds` hold with a worker that hangs.

## 4. Proofs

`UtilQueueProofs` proves, for any sets of threads, any calls and any capacity:

* `TypeCorrect`, `RefcountCorrect`, `DeletionSafe`: invariants. `NoUseAfterFree` (a
  thread inside has a live queue) is inductive only with `RefcountExact`, since
  `DeleteRetry` frees when `reference_count` is 0; and that one is a fact on the
  cardinality of the set of threads inside, step by step. Their conjunction is `IInv`.
* `WakeupNotLost`: with one receiver, `ReceiveWakeup`, which every thread of the player
  relies on for its own command queue. It is inductive beside `TypeOK`.
* `EventsUnique`: `UniqueEvents`. A sender that slept looks for a duplicate again before
  it stores, and `PlaceShifts` says where each older message is after that.
* `Refinement`: each step of `UtilQueue` is a step of `MessageQueue` or none, under
  `phaseBar`. `RInv` adds to `IInv` that the messages queued or carried by a waiting sender
  are all different (`Fresh`), since `MessageQueue` accepts a message once, and that a freed
  queue is a zeroed one (`Zeroed`).

`VidSessionProofs` is about every set of files, every capacity and every history of a
player. Two invariants are inductive together (`SessionInvariant`).

* `FInv`, for `FlagsCorrect` (`FlagsMatchState`): the sub-state bits never outlive the wait
  they were set for. It needs `player` to be a record of the right type, and that a player
  whose decoder is being reopened is preparing a seek; one step per action that
  writes `player`.
* `SessionInv`, for the messages in flight: `TypeOK` (`TypeCorrect`), `ReadHasCause`
  (`ReadsHaveCause`), `WaitingHasCause` (`WaitsHaveCause`), `WaveInFlight` (`WavesInFlight`) and,
  as an action property, `CloseAlone` (`ClosesAlone`). None of them is inductive as it
  stands; what is added says how an abort ends what runs:
  * `AbortInv`: an ABORT in a worker's queue, or its answer in the notices, but never both and
    never the answer twice, and only while the decode thread waits for that answer. So no
    late ABORT empties the queue of a worker in the next session, which would leave
    `readActive` or `waiting` set with nothing behind it.
  * `StopInv`: a worker that has answered is idle with an empty queue until the abort
    ends, since only the decode thread would ask it something and it asks the others
    in turn (read, convert, video, audio). `CloseAlone` is this at the last answer.
  * `WaveInv`: `WaveInFlight` in the form that is kept by each step. The CLEAR half of a
    wave counts only for a film with video: the convert thread of one without throws
    the request away, and what keeps that wave going is the SEEK alone.

  The queues are handled by a few lemmas (what adding, taking and emptying do to
  "is queued", `AddFacts` to `FlushFacts`); an action of the decode thread outside an abort
  is then `Steady` up to one notice taken and one cause added (`SteadyStep`), an action
  of a worker keeps a cause or passes it on (`RequestTaken`, `Reported`). The
  invariant was checked with TLC on the instance of `Session_safety` before it was proved.

`SeekEngineProofs` proves, for any number of seeks and of file ends, `TypeCorrect` and
`InOrder`: no interleaving of the two threads takes the file back to an older
seek (`SeeksInOrder`). The property speaks of the file only; what makes it inductive is
the order of all the copies of a position, `file <= target <= queued <= seekPos`, with the value
the decode thread has loaded and not yet stored between `target` and `seekPos`. Without
that last part `StorePosition` could take `queued` back below `target`. `queued` itself
may go back: a retry may overwrite a newer frozen position with the one it loaded.

`PacketRingProofs`, `ImageRingProofs` and `PathProofs` are about rings of any size. The
lemmas on `Holds` (a run of numbered items from the take index to the put index) are
stated once, in `PacketRingProofs`, with what a put, a take and an empty ring do to it.

* `PacketInv`: the cache `Holds` the last `Held` packets, where `Held` corrects the
  count by a packet filled and not yet counted, and one freed and still counted. That the
  reader's slot is free follows from the count leaving one slot over; it is not
  inductive without the correction. `CacheIsChannel` maps every step to `Put`, `Take`,
  `Flush` or a stutter.
* `ImageInv` has four parts: `PicturesInv`, the same for the images; `WaveInv`, which
  thread may be at work at which stage of a CLEAR; `TokensInv`, that FFmpeg never gave
  more pictures than packets were routed (needed for the items of the channel);
  `HandoverInv`, that the slot is empty when the next packet may be routed, unless
  memory ran out.
* `FrameInv`: each track's textures between the two indices are the last ones written,
  the one on the screen is right before them, and the health the main loop took
  earlier is not more than what is there now (`SeenInv`: only the main loop takes
  away). What is in the textures is also newer than all that the last seek dropped
  (`dropped`). All of it only as long as `raced` is FALSE.
* `PathInv` adds how far the seek is for each state of the player, which gives the
  guards of the three clearing actions; so `PathSpec` implements `PacketSpec`, `ImageSpec`
  and `FrameSpec` (`SeekClearsAlone`), and what was proved of each ring holds of the whole
  path (`PathKeepsOrder`).
* `OrderInv` relates the three rings, for `ScreenKeepsOrder` (`ScreenInOrder`). `CacheNewer` and
  `ImagesNewer` say that all that is held in a ring is newer than the last seek, and than the
  picture the convert thread has; `OriginInv` that a picture which the convert thread holds
  is newer than all in the textures, and that those not yet shown are newer than the
  seek. The last one holds because the seek empties the textures after it emptied the
  images, with the convert thread outside (`PathInv`).

`LifecycleProofs`: `OrderInv` (one thread follows the other), `RunInv` (no worker has a
reason to end before the exit thread starts), `JoinInv` (what is joined has ended, unless
a join gave up) together are inductive, for any number of workers.

`UtilSyncProofs`: for any threads and objects, with the assumption that the kinds of
objects are disjoint. `RefCountsExact` is an equation between a counter and the cardinality
of the set of threads inside: `CountEnter`, `CountLeave` and `CountOnward` treat a thread that
comes, goes or moves on, `WakeSleepers` the set that a broadcast wakes. `LockInv` says what
`holder` and `depth` are at each point between the two mutex sections (`BetweenInv`),
and that a plain lock that is held without an owner has its holder at such a point
(`PlainInv`): without it `NoSelfDeadlock` (`NoSelfDeadlocks`) is not inductive. `OwnersCorrect` and
`NoSelfDeadlocks` follow from it.

Every invariant and every action property of the passing runs is a theorem, and so are
the refinements. Only model-checked are the liveness properties, which need fairness and
`ENABLED`: `DeleteTerminates`, `AbortEnds`, `WaveEnds`, `SeeksSettle`, `NoStall`, `ExitEnds`. The
theorems `WaitsHaveCause`, `ReadsHaveCause` and `WavesInFlight` are their safe half: what
is waited for is always under way.

## 5. Not modelled

* The speaker (`speaker.c`) and the hardware decoder (`decoder_mvd.c`): rings whose state
  hardware changes and the code reads back. How the hardware does it is not in `src/`.
* `fake_pthread.c`: its only caller is FFmpeg, whose threads are not in `src/`; its locks
  and conditions are those of `UtilSync`.
* Conversion of pixels, drawing, panels, menus, settings, logging, files: arithmetic
  on megabytes, layout, text, input and output; one thread each.
* The user command ring (`vid_cmd.c`): one thread fills and empties it within a frame.
* `include/` and `library/`: headers of the libraries, and more than half of all lines. The
  models are about the threads of the player and what they share, some thousand lines
  of `vid_*.c` and `system/util`.

Hazards known and not covered by a property are in `PROJECT.json`, each with the reason:
among them two video tracks whose convert thread waits at the one without pictures
(`vid_worker.c:796`), side-by-side sizes in films with two tracks (`vid_draw.c:113`), a file
that cannot be reopened after a seek (`vid_decode.c:1022`), and choices of the user
that meet a state they did not see.

## 6. Plan

1. done: `UtilQueue`, `MessageQueue`, `VidSession`, `SeekEngine` and their proofs.
2. done: `PacketRing`, `ImageRing`, `FrameRing`, `DataPath` and their proofs.
3. done: `UtilSync`, `Lifecycle` and their proofs.
4. done: theorems about the messages in flight of `VidSession` and about the order
   across the three rings.
5. next: a data path of two tracks.
