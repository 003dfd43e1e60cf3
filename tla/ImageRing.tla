----------------------------- MODULE ImageRing -----------------------------
(***************************************************************************)
(* One track of the software decoder (decoder_video_soft.c): the decode    *)
(* thread routes a packet to it, the video decode thread decodes it, the   *)
(* convert thread takes the pictures.  Only the count of pictures has a    *)
(* lock; packets are handed over by messages.                              *)
(*                                                                         *)
(* Pictures are numbered in the order FFmpeg gives them.  FFmpeg itself is *)
(* a bag of pictures it keeps back: it may take a packet and give no       *)
(* picture, or give one and refuse the packet.                             *)
(***************************************************************************)
EXTENDS Ring, Sequences

CONSTANTS MaxImages,    \* util_video_decoder_max_raw_image
          MaxDelay,     \* bound: pictures FFmpeg keeps back
          MaxPackets    \* bound: packets routed

ASSUME ImagesAssumption ==
  MaxImages \in Nat \ {0, 1} /\ MaxDelay \in Nat /\ MaxPackets \in Nat

VARIABLES routed,      \* packets routed so far
          cached,      \* util_video_decoder_cache_packet
          handed,      \* is_waiting_video_decoder and the two messages: no, posted, taken
          packet,      \* util_video_decoder_packet
          inside,      \* pictures FFmpeg keeps back
          made,        \* pictures FFmpeg gave
          images,      \* util_video_decoder_raw_image
          imagePut,   \* .._current_index, where to put
          imageTake,  \* .._ready_index, where to take
          imageCount,  \* .._available_raw_image
          coder,       \* where the video decode thread is
          again,       \* avcodec_send_packet answered EAGAIN
          getter,      \* where the convert thread is
          got,         \* the picture it took last
          wave,        \* how far the CLEAR of a seek is
          copyFailed   \* history: ready_packet ran out of memory

imageVars == <<routed, cached, handed, packet, inside, made, images, imagePut, imageTake,
               imageCount, coder, again, getter, got, wave, copyFailed>>
packetPart == <<routed, cached, handed, packet, copyFailed>>
ringPart == <<images, imagePut, imageTake, imageCount>>

Nothing == 0
ImageSlots == 0..MaxImages - 1
NoImages == [s \in ImageSlots |-> Nothing]

ImageInit ==
  /\ routed = 0 /\ cached = Nothing /\ packet = Nothing /\ handed = "no"
  /\ inside = 0 /\ made = 0
  /\ images = NoImages /\ imagePut = 0 /\ imageTake = 0 /\ imageCount = 0
  /\ coder = "idle" /\ again = FALSE
  /\ getter = "idle" /\ got = Nothing
  /\ wave = "none" /\ copyFailed = FALSE

-----------------------------------------------------------------------------
(* The hand-over of a packet.                                              *)

\* The decode thread stores the packet and posts DECODE; it parses no other
\* one before the answer.
Route == /\ handed = "no" /\ wave = "none" /\ routed < MaxPackets
         /\ routed' = routed + 1
         /\ cached' = routed + 1
         /\ handed' = "posted"
         /\ UNCHANGED <<packet, inside, made, ringPart, coder, again, getter, got, wave, copyFailed>>

\* The video decode thread takes DECODE: it moves the packet to where it is
\* decoded from, unless one is there or memory is short, and answers either way.
TakeRequest ==
  /\ handed = "posted" /\ coder = "idle"
  /\ handed' = "taken"
  /\ coder' = "trying"
  /\ \/ packet = Nothing /\ packet' = cached /\ cached' = Nothing /\ UNCHANGED copyFailed
     \/ packet = Nothing /\ copyFailed' = TRUE /\ UNCHANGED <<packet, cached>>
     \/ packet /= Nothing /\ UNCHANGED <<packet, cached, copyFailed>>
  /\ UNCHANGED <<routed, inside, made, ringPart, again, getter, got, wave>>

\* Mutant of Answered: the answer comes before the packet was moved.
AnsweredEarly == /\ handed /= "no"
                 /\ handed' = "no"
                 /\ UNCHANGED <<routed, cached, packet, inside, made, ringPart, coder, again,
                                getter, got, wave, copyFailed>>

\* The decode thread hears that the packet was copied.
Answered == /\ handed = "taken"
            /\ handed' = "no"
            /\ UNCHANGED <<routed, cached, packet, inside, made, ringPart, coder, again,
                           getter, got, wave, copyFailed>>

-----------------------------------------------------------------------------
(* Decoding: DecoderVideoSoft_decode, called again and again.              *)

Room == imageCount + 1 < MaxImages
CanDecode == packet /= Nothing /\ Room

\* Mutant of DecodeStart: the ring is filled to its last slot.
DecodeStartFull == /\ coder = "trying" /\ packet /= Nothing /\ imageCount < MaxImages
                   /\ coder' = "decoding"
                   /\ UNCHANGED <<packetPart, inside, made, ringPart, again, getter, got, wave>>

DecodeStart == /\ coder = "trying" /\ CanDecode
               /\ coder' = "decoding"
               /\ UNCHANGED <<packetPart, inside, made, ringPart, again, getter, got, wave>>

\* A CLEAR is waiting: the thread stops trying and keeps the packet.
GiveUp == /\ coder = "trying" /\ ~CanDecode /\ wave = "clear"
          /\ coder' = "idle"
          /\ UNCHANGED <<packetPart, inside, made, ringPart, again, getter, got, wave>>

\* FFmpeg gives a picture, having taken the packet or not (EAGAIN).
Picture == /\ coder = "decoding"
           /\ \/ again' = FALSE /\ UNCHANGED inside
              \/ again' = TRUE /\ inside > 0 /\ inside' = inside - 1
           /\ made' = made + 1
           /\ images' = [images EXCEPT ![imagePut] = made + 1]
           /\ imagePut' = After(imagePut, MaxImages)
           /\ coder' = "counting"
           /\ UNCHANGED <<packetPart, imageTake, imageCount, getter, got, wave>>

Counted == /\ coder = "counting"
           /\ imageCount' = imageCount + 1
           /\ packet' = IF again THEN packet ELSE Nothing
           /\ again' = FALSE
           /\ coder' = IF again \/ wave = "flushing" THEN "trying" ELSE "idle"
           /\ UNCHANGED <<routed, cached, handed, copyFailed, inside, made, images, imagePut,
                          imageTake, getter, got, wave>>

\* FFmpeg gives no picture: it refused the packet all the same (it is tried
\* again), it took it (NEED_MORE_INPUT), or it failed on it (the packet is lost).
NoPicture ==
  /\ coder = "decoding"
  /\ images' = [images EXCEPT ![imagePut] = Nothing]
  /\ \/ coder' = "trying" /\ UNCHANGED <<packet, inside, wave>>
     \/ /\ inside < MaxDelay /\ inside' = inside + 1
        /\ packet' = Nothing /\ coder' = "idle"
        /\ wave' = IF wave = "flushing" THEN "flushed" ELSE wave
     \/ /\ UNCHANGED inside
        /\ packet' = Nothing /\ coder' = "idle"
        /\ wave' = IF wave = "flushing" THEN "flushed" ELSE wave
  /\ UNCHANGED <<routed, cached, handed, copyFailed, made, imagePut, imageTake, imageCount,
                 again, getter, got>>

-----------------------------------------------------------------------------
(* The convert thread: DecoderVideoSoft_get_image(_ref).                   *)

\* Mutant of GetStart: the ring is not asked.
GetStartBlind == /\ getter = "idle" /\ wave /= "cleared"
                 /\ getter' = "copying"
                 /\ UNCHANGED <<packetPart, inside, made, ringPart, coder, again, got, wave>>

GetStart == /\ getter = "idle" /\ imageCount > 0 /\ wave /= "cleared"
            /\ getter' = "copying"
            /\ UNCHANGED <<packetPart, inside, made, ringPart, coder, again, got, wave>>

GetCopy == /\ getter = "copying"
           /\ got' = images[imageTake]
           /\ images' = [images EXCEPT ![imageTake] = Nothing]
           /\ imageTake' = After(imageTake, MaxImages)
           /\ getter' = "counting"
           /\ UNCHANGED <<packetPart, inside, made, imagePut, imageCount, coder, again, wave>>

\* No memory for the copy.
GetFails == /\ getter = "copying"
            /\ getter' = "idle"
            /\ UNCHANGED <<packetPart, inside, made, ringPart, coder, again, got, wave>>

GetCount == /\ getter = "counting"
            /\ imageCount' = imageCount - 1
            /\ getter' = "idle"
            /\ UNCHANGED <<packetPart, inside, made, images, imagePut, imageTake,
                           coder, again, got, wave>>

-----------------------------------------------------------------------------
(* The CLEAR of a seek: video decode thread, convert thread, decode thread.*)

WaveStart == /\ wave = "none"
             /\ wave' = "clear"
             /\ UNCHANGED <<packetPart, inside, made, ringPart, coder, again, getter, got>>

\* CLEAR is behind DECODE in the same queue.
FlushStart == /\ wave = "clear" /\ coder = "idle" /\ handed /= "posted"
              /\ wave' = "flushing"
              /\ coder' = "trying"
              /\ UNCHANGED <<packetPart, inside, made, ringPart, again, getter, got>>

FlushEnd == /\ wave = "flushing" /\ coder = "trying" /\ ~CanDecode
            /\ wave' = "flushed"
            /\ coder' = "idle"
            /\ UNCHANGED <<packetPart, inside, made, ringPart, again, getter, got>>

EmptyImages == /\ images' = NoImages
               /\ imagePut' = 0 /\ imageTake' = 0 /\ imageCount' = 0

\* DecoderVideoSoft_clear_raw_image, by the convert thread between two pictures
\* (DataPath shows that it is).
ClearImages ==
  /\ wave = "flushed" /\ getter = "idle"
  /\ EmptyImages
  /\ wave' = "cleared"
  /\ UNCHANGED <<packetPart, inside, made, coder, again, getter, got>>

\* The decode thread closes the file and opens it again, so that both packets
\* and what FFmpeg kept back are gone.  It has taken the answer to the last
\* DECODE, which came before in the same queue.
Reopen ==
  /\ wave = "cleared" /\ handed = "no"
  /\ cached' = Nothing /\ packet' = Nothing
  /\ inside' = 0
  /\ EmptyImages
  /\ wave' = "none"
  /\ copyFailed' = FALSE
  /\ UNCHANGED <<routed, handed, made, coder, again, getter, got>>

ImageNext == \/ Route \/ TakeRequest \/ Answered
             \/ DecodeStart \/ GiveUp \/ Picture \/ Counted \/ NoPicture
             \/ GetStart \/ GetCopy \/ GetFails \/ GetCount
             \/ WaveStart \/ FlushStart \/ FlushEnd \/ ClearImages \/ Reopen

ImageSpec == ImageInit /\ [][ImageNext]_imageVars

-----------------------------------------------------------------------------
(* Properties.                                                             *)

ImageTypeOK ==
  /\ routed \in Nat /\ cached \in Nat /\ packet \in Nat /\ inside \in Nat
  /\ made \in Nat /\ got \in Nat
  /\ handed \in {"no", "posted", "taken"}
  /\ images \in [ImageSlots -> Nat]
  /\ imagePut \in ImageSlots /\ imageTake \in ImageSlots /\ imageCount \in Nat
  /\ coder \in {"idle", "trying", "decoding", "counting"}
  /\ getter \in {"idle", "copying", "counting"}
  /\ wave \in {"none", "clear", "flushing", "flushed", "cleared"}
  /\ again \in BOOLEAN /\ copyFailed \in BOOLEAN

\* Pictures in the ring, counted or about to be.
ImagesHeld == imageCount + (IF coder = "counting" THEN 1 ELSE 0)
                         - (IF getter = "counting" THEN 1 ELSE 0)

\* The convert thread copies the oldest picture, never an empty slot, and
\* FFmpeg writes to no slot that holds one: decoder_video_soft.c:716 and 931
\* use the slots outside the lock.
PicturesApart ==
  /\ getter = "copying" => images[imageTake] = made - ImagesHeld + 1
  /\ coder = "decoding" => \A k \in 0..ImagesHeld - 1 :
                              imagePut /= Place(imageTake, k, MaxImages)

\* The ring is a channel: pictures come out in the order FFmpeg gave them, each
\* once, and a seek drops all or none.
imagesInside == [k \in 1..ImagesHeld |-> images[Place(imageTake, k - 1, MaxImages)]]
ImageChannel == INSTANCE Channel
                  WITH Items <- 1..MaxPackets, Capacity <- MaxImages - 1,
                       inside <- imagesInside, taken <- got
ImagesInOrder == ImageChannel!Spec

\* A packet in the hand-over slot is decoded or dropped with the file, never
\* overwritten by the next one: decoder_video_soft.c:573 allocates over it.
HandoverKeepsPackets ==
  [][cached /= Nothing /\ cached' /= cached => cached' = Nothing \/ copyFailed]_imageVars
=============================================================================
