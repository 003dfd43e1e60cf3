-------------------------- MODULE ImageRingProofs --------------------------
(***************************************************************************)
(* One track of the software decoder for any number of pictures: its types,*)
(* that the decoder and the convert thread touch different slots, that the *)
(* ring of pictures is a channel, and that no packet is overwritten on its *)
(* way to the decoder.                                                     *)
(***************************************************************************)
EXTENDS ImageRing, PacketRingProofs

USE ImagesAssumption

-----------------------------------------------------------------------------
(* The inductive invariant, in four parts.                                 *)

\* A CLEAR overtakes no DECODE; the decoder rests when its part of the seek is
\* done, the convert thread when its part is.
WaveInv ==
  /\ wave \in {"flushing", "flushed", "cleared"} => handed /= "posted"
  /\ wave \in {"flushed", "cleared"} => coder = "idle"
  /\ wave = "cleared" => getter = "idle"

\* The ring, as for packets.
PicturesInv ==
  /\ imageCount < MaxImages
  /\ coder \in {"decoding", "counting"} => imageCount + 1 < MaxImages
  /\ getter /= "idle" => imageCount > 0
  /\ ImagesHeld <= made
  /\ Holds(images, imageTake, imagePut, ImagesHeld, made, MaxImages)

\* Every picture, given or kept back, comes of a packet of its own.
Token(b) == IF b THEN 1 ELSE 0
Tokens == made + inside + Token(cached /= Nothing)
            + Token(packet /= Nothing /\ (coder = "counting" => again))
TokensInv == /\ coder \in {"decoding", "counting"} => packet /= Nothing
             /\ Tokens <= routed /\ routed <= MaxPackets

\* Unless a seek runs: a decoder at rest has no packet, and the hand-over slot
\* has one only until it was taken.
HandoverInv == wave = "none" =>
  /\ coder = "idle" => packet = Nothing
  /\ cached /= Nothing => handed = "posted" \/ copyFailed

ImageInv == ImageTypeOK /\ WaveInv /\ PicturesInv /\ TokensInv /\ HandoverInv

LEMMA ImageInitInv == ImageInit => ImageInv
<1> SUFFICES ASSUME ImageInit PROVE ImageInv
  OBVIOUS
<1>1. ImageTypeOK
  <2>1. again \in BOOLEAN /\ copyFailed \in BOOLEAN
    BY Zenon DEF ImageInit
  <2> QED BY <2>1 DEF ImageInit, ImageTypeOK, NoImages, ImageSlots, Nothing
<1>2. ImagesHeld = 0 /\ made = 0
  BY DEF ImageInit, ImagesHeld
<1>3. PicturesInv
  BY <1>2, HoldsNone DEF ImageInit, PicturesInv
<1>4. TokensInv
  BY DEF ImageInit, TokensInv, Tokens, Token, Nothing
<1> QED BY <1>1, <1>3, <1>4 DEF ImageInit, ImageInv, WaveInv, HandoverInv

LEMMA ImageTypeNext ==
  ASSUME ImageTypeOK, PicturesInv, [ImageNext]_imageVars
  PROVE  ImageTypeOK'
<1>0. MaxImages \in Nat \ {0}
  OBVIOUS
<1>1. ASSUME Route PROVE ImageTypeOK'
  BY <1>1 DEF Route, ImageTypeOK, ringPart
<1>2. ASSUME TakeRequest PROVE ImageTypeOK'
  BY <1>2 DEF TakeRequest, ImageTypeOK, ringPart, Nothing
<1>3. ASSUME Answered \/ DecodeStart \/ GiveUp PROVE ImageTypeOK'
  BY <1>3 DEF Answered, DecodeStart, GiveUp, ImageTypeOK, ringPart, packetPart
<1>4. ASSUME Picture PROVE ImageTypeOK'
  <2>1. imagePut' \in ImageSlots
    BY <1>4, <1>0, AfterType DEF Picture, ImageTypeOK, ImageSlots
  <2>2. images' \in [ImageSlots -> Nat] /\ made' \in Nat
    BY <1>4 DEF Picture, ImageTypeOK
  <2>3. again' \in BOOLEAN
    BY <1>4, Zenon DEF Picture
  <2>4. inside' \in Nat
    BY <1>4 DEF Picture, ImageTypeOK
  <2>5. coder' = "counting" /\ UNCHANGED <<packetPart, imageTake, imageCount, getter, got, wave>>
    BY <1>4, Zenon DEF Picture
  <2> QED BY <2>1, <2>2, <2>3, <2>4, <2>5, Zenon DEF ImageTypeOK, packetPart
<1>5. ASSUME Counted PROVE ImageTypeOK'
  <2>1. packet' \in Nat /\ imageCount' \in Nat
    <3>1. packet' = packet \/ packet' = 0
      BY <1>5, Zenon DEF Counted, Nothing
    <3> QED BY <1>5, <3>1 DEF Counted, ImageTypeOK
  <2>2. again' \in BOOLEAN /\ coder' \in {"idle", "trying", "decoding", "counting"}
    BY <1>5, Zenon DEF Counted
  <2> QED BY <1>5, <2>1, <2>2, Zenon DEF Counted, ImageTypeOK
<1>6. ASSUME NoPicture PROVE ImageTypeOK'
  BY <1>6 DEF NoPicture, ImageTypeOK, Nothing
<1>7. ASSUME GetStart \/ GetFails PROVE ImageTypeOK'
  BY <1>7 DEF GetStart, GetFails, ImageTypeOK, ringPart, packetPart
<1>8. ASSUME GetCopy PROVE ImageTypeOK'
  <2>1. imageTake' \in ImageSlots
    BY <1>8, <1>0, AfterType DEF GetCopy, ImageTypeOK, ImageSlots
  <2>2. images' \in [ImageSlots -> Nat] /\ got' \in Nat
    BY <1>8 DEF GetCopy, ImageTypeOK, Nothing
  <2> QED BY <1>8, <2>1, <2>2 DEF GetCopy, ImageTypeOK, packetPart
<1>9. ASSUME GetCount, imageCount > 0 PROVE ImageTypeOK'
  BY <1>9 DEF GetCount, ImageTypeOK, packetPart
<1>10. ASSUME WaveStart \/ FlushStart \/ FlushEnd PROVE ImageTypeOK'
  BY <1>10 DEF WaveStart, FlushStart, FlushEnd, ImageTypeOK, ringPart, packetPart
<1>11. ASSUME EmptyImages PROVE images' \in [ImageSlots -> Nat] /\ imagePut' \in ImageSlots /\ imageTake' \in ImageSlots /\ imageCount' \in Nat
  BY <1>11 DEF EmptyImages, NoImages, ImageSlots, Nothing
<1>12. ASSUME ClearImages PROVE ImageTypeOK'
  BY <1>11, <1>12 DEF ClearImages, ImageTypeOK, packetPart
<1>13. ASSUME Reopen PROVE ImageTypeOK'
  <2>1. copyFailed' \in BOOLEAN /\ again' \in BOOLEAN
    BY <1>13, Zenon DEF Reopen, ImageTypeOK
  <2> QED BY <1>11, <1>13, <2>1 DEF Reopen, ImageTypeOK, Nothing
<1>14. ASSUME UNCHANGED imageVars PROVE ImageTypeOK'
  BY <1>14, Zenon DEF imageVars, packetPart, ringPart, ImageTypeOK
<1> QED
  <2>1. GetCount => imageCount > 0
    BY DEF GetCount, PicturesInv
  <2> QED BY <1>1, <1>2, <1>3, <1>4, <1>5, <1>6, <1>7, <1>8, <1>9, <1>10, <1>12, <1>13, <1>14,
             <2>1, Zenon DEF ImageNext

LEMMA WaveNext ==
  ASSUME ImageTypeOK, WaveInv, [ImageNext]_imageVars
  PROVE  WaveInv'
<1>1. CASE Route \/ TakeRequest \/ Answered
  BY <1>1 DEF Route, TakeRequest, Answered, WaveInv, ImageTypeOK
<1>2. CASE DecodeStart \/ GiveUp \/ Picture \/ Counted \/ NoPicture
  BY <1>2 DEF DecodeStart, GiveUp, Picture, Counted, NoPicture, WaveInv, ImageTypeOK, packetPart
<1>3. CASE GetStart \/ GetCopy \/ GetFails \/ GetCount
  BY <1>3 DEF GetStart, GetCopy, GetFails, GetCount, WaveInv, ImageTypeOK, packetPart
<1>4. CASE WaveStart \/ FlushStart \/ FlushEnd \/ ClearImages \/ Reopen
  BY <1>4 DEF WaveStart, FlushStart, FlushEnd, ClearImages, Reopen, WaveInv, ImageTypeOK, packetPart
<1>5. CASE UNCHANGED imageVars
  BY <1>5 DEF imageVars, WaveInv
<1> QED BY <1>1, <1>2, <1>3, <1>4, <1>5, Zenon DEF ImageNext

LEMMA HandoverNext ==
  ASSUME ImageTypeOK, WaveInv, HandoverInv, [ImageNext]_imageVars
  PROVE  HandoverInv'
<1>1. CASE Route \/ TakeRequest \/ Answered
  BY <1>1, Zenon DEF Route, TakeRequest, Answered, HandoverInv
<1>2. CASE DecodeStart \/ GiveUp \/ Picture \/ Counted \/ NoPicture
  BY <1>2 DEF DecodeStart, GiveUp, Picture, Counted, NoPicture, HandoverInv, packetPart
<1>3. CASE GetStart \/ GetCopy \/ GetFails \/ GetCount
  BY <1>3 DEF GetStart, GetCopy, GetFails, GetCount, HandoverInv, packetPart
<1>4. CASE WaveStart \/ FlushStart \/ FlushEnd \/ ClearImages \/ Reopen
  BY <1>4 DEF WaveStart, FlushStart, FlushEnd, ClearImages, Reopen, HandoverInv, packetPart
<1>5. CASE UNCHANGED imageVars
  BY <1>5 DEF imageVars, packetPart, HandoverInv
<1> QED BY <1>1, <1>2, <1>3, <1>4, <1>5, Zenon DEF ImageNext

LEMMA ImagesHeldType ==
  ASSUME ImageTypeOK, PicturesInv
  PROVE  /\ ImagesHeld \in 0..MaxImages - 1
         /\ coder = "decoding" => ImagesHeld + 1 < MaxImages
         /\ getter = "copying" => ImagesHeld > 0
BY DEF PicturesInv, ImageTypeOK, ImagesHeld

LEMMA PicturesNext ==
  ASSUME ImageTypeOK, WaveInv, PicturesInv, [ImageNext]_imageVars
  PROVE  PicturesInv'
<1>0. /\ MaxImages \in Nat \ {0} /\ MaxImages - 1 \in Nat
      /\ images \in [0..MaxImages - 1 -> Nat] /\ made \in Nat
      /\ imageTake \in 0..MaxImages - 1 /\ imagePut \in 0..MaxImages - 1
      /\ imageCount \in Nat /\ ImagesHeld \in Nat
  BY ImagesHeldType DEF ImageTypeOK, ImageSlots
<1>a. /\ coder \in {"idle", "trying", "decoding", "counting"}
      /\ getter \in {"idle", "copying", "counting"}
  BY DEF ImageTypeOK
<1>1. CASE Route \/ TakeRequest \/ Answered
  <2>1. ImagesHeld' = ImagesHeld
    BY <1>1 DEF Route, TakeRequest, Answered, ImagesHeld, ringPart
  <2> QED BY <1>1, <2>1 DEF Route, TakeRequest, Answered, PicturesInv, ringPart
<1>2. CASE DecodeStart \/ GiveUp \/ GetStart \/ GetFails
  <2>1. ImagesHeld' = ImagesHeld
    BY <1>2 DEF DecodeStart, GiveUp, GetStart, GetFails, ImagesHeld, ringPart
  <2> QED BY <1>2, <2>1 DEF DecodeStart, GiveUp, GetStart, GetFails, PicturesInv, ringPart,
                            CanDecode, Room
<1>3. CASE Counted
  <2>1. ImagesHeld' = ImagesHeld /\ coder' \in {"trying", "idle"} /\ imageCount' = imageCount + 1
    BY <1>3, <1>0 DEF Counted, ImagesHeld
  <2> QED BY <1>0, <1>3, <2>1 DEF Counted, PicturesInv
<1>4. CASE GetCount
  <2>1. ImagesHeld' = ImagesHeld
    BY <1>4, <1>0 DEF GetCount, ImagesHeld
  <2> QED BY <1>0, <1>4, <2>1 DEF GetCount, PicturesInv
<1>5. CASE Picture
  <2>1. ImagesHeld' = ImagesHeld + 1 /\ ImagesHeld + 1 < MaxImages
    BY <1>5, <1>0, ImagesHeldType DEF Picture, ImagesHeld
  <2>2. Holds(images, imageTake, imagePut, ImagesHeld, made, MaxImages)'
    BY <1>0, <1>5, <2>1, HoldsPut DEF PicturesInv, Picture
  <2> QED BY <1>0, <1>5, <2>1, <2>2 DEF Picture, PicturesInv
<1>6. CASE NoPicture
  <2>1. ImagesHeld' = ImagesHeld
    BY <1>6 DEF NoPicture, ImagesHeld
  <2>2. Holds(images', imageTake, imagePut, ImagesHeld, made, MaxImages)
    BY <1>0, <1>6, HoldsBlank DEF PicturesInv, NoPicture
  <2> QED BY <1>6, <2>1, <2>2 DEF NoPicture, PicturesInv
<1>7. CASE GetCopy
  <2>1. ImagesHeld' = ImagesHeld - 1 /\ ImagesHeld > 0
    BY <1>7, <1>0, ImagesHeldType DEF GetCopy, ImagesHeld
  <2>2. Holds(images, imageTake, imagePut, ImagesHeld, made, MaxImages)'
    BY <1>0, <1>7, <2>1, HoldsTake DEF PicturesInv, GetCopy
  <2> QED BY <1>0, <1>7, <2>1, <2>2 DEF GetCopy, PicturesInv
<1>8. CASE WaveStart \/ FlushStart \/ FlushEnd
  <2>1. ImagesHeld' = ImagesHeld
    BY <1>8 DEF WaveStart, FlushStart, FlushEnd, ImagesHeld, ringPart
  <2> QED BY <1>8, <2>1 DEF WaveStart, FlushStart, FlushEnd, PicturesInv, ringPart
<1>9. CASE ClearImages \/ Reopen
  <2>1. /\ coder' = "idle" /\ getter' = "idle" /\ made' = made /\ imageCount' = 0
        /\ imageTake' = 0 /\ imagePut' = 0
    BY <1>9 DEF ClearImages, Reopen, EmptyImages, WaveInv
  <2>2. ImagesHeld' = 0
    BY <2>1 DEF ImagesHeld
  <2>3. Holds(images, imageTake, imagePut, ImagesHeld, made, MaxImages)'
    BY <1>0, <2>1, <2>2, HoldsNone
  <2> QED BY <1>0, <2>1, <2>2, <2>3 DEF PicturesInv
<1>10. CASE UNCHANGED imageVars
  BY <1>10 DEF imageVars, ringPart, ImagesHeld, PicturesInv
<1> QED BY <1>1, <1>2, <1>3, <1>4, <1>5, <1>6, <1>7, <1>8, <1>9, <1>10, Zenon DEF ImageNext

\* Counting packets and pictures: what a step takes in one place it gives in
\* another, or loses.
LEMMA TokensNext ==
  ASSUME ImageTypeOK, WaveInv, TokensInv, [ImageNext]_imageVars
  PROVE  TokensInv'
<1>0. /\ routed \in Nat /\ cached \in Nat /\ packet \in Nat /\ inside \in Nat /\ made \in Nat
      /\ MaxPackets \in Nat
      /\ coder \in {"idle", "trying", "decoding", "counting"}
  BY DEF ImageTypeOK
<1> DEFINE InHand == Token(cached /= Nothing)
           InCoder == Token(packet /= Nothing /\ (coder = "counting" => again))
<1>a. InHand \in {0, 1} /\ InCoder \in {0, 1} /\ InHand' \in {0, 1} /\ InCoder' \in {0, 1}
  BY DEF Token
<1>b. Tokens = made + inside + InHand + InCoder
      /\ Tokens' = made' + inside' + InHand' + InCoder'
  BY DEF Tokens
<1>c. /\ coder \in {"decoding", "counting"} => packet /= Nothing
      /\ Tokens <= routed /\ routed <= MaxPackets
  BY DEF TokensInv
<1>1. CASE Route
  <2>1. InCoder' = InCoder
    BY <1>1, Zenon DEF Route
  <2> QED BY <1>0, <1>a, <1>b, <1>c, <1>1, <2>1 DEF Route, TokensInv
<1>2. CASE TakeRequest
  <2>0. coder = "idle" /\ coder' = "trying"
    BY <1>2, Zenon DEF TakeRequest
  <2>1. InHand + InCoder = InHand' + InCoder'
    <3>1. CASE packet = Nothing /\ packet' = cached /\ cached' = Nothing
      BY <2>0, <3>1 DEF Token
    <3>2. CASE UNCHANGED <<packet, cached>>
      BY <2>0, <3>2 DEF Token
    <3> QED BY <1>2, <3>1, <3>2, Zenon DEF TakeRequest
  <2>2. UNCHANGED <<routed, made, inside>>
    BY <1>2, Zenon DEF TakeRequest
  <2> QED BY <1>0, <1>a, <1>b, <1>c, <2>0, <2>1, <2>2 DEF TokensInv
<1>3. CASE Picture
  <2>0. /\ coder = "decoding" /\ coder' = "counting" /\ made' = made + 1
        /\ UNCHANGED <<routed, packet, cached>>
    BY <1>3, Zenon DEF Picture, packetPart
  <2>1. InCoder = 1 /\ InHand' = InHand
    BY <1>c, <2>0 DEF Token
  <2>2. CASE again' = FALSE /\ inside' = inside
    <3>1. InCoder' = 0
      BY <2>0, <2>2, Zenon DEF Token
    <3> QED BY <1>0, <1>a, <1>b, <1>c, <2>0, <2>1, <2>2, <3>1 DEF TokensInv
  <2>3. CASE inside > 0 /\ inside' = inside - 1
    BY <1>0, <1>a, <1>b, <1>c, <2>0, <2>1, <2>3 DEF TokensInv
  <2> QED BY <1>3, <2>2, <2>3, Zenon DEF Picture
<1>4. CASE Counted
  <2>0. /\ coder = "counting" /\ UNCHANGED <<routed, made, inside, cached>>
        /\ coder' \in {"trying", "idle"}
    BY <1>4, Zenon DEF Counted
  <2>1. InHand' = InHand
    BY <2>0
  <2>2. InCoder' = InCoder
    <3>1. CASE again
      <4>1. packet' = packet
        BY <1>4, <3>1, Zenon DEF Counted
      <4>2. (packet /= Nothing /\ (coder = "counting" => again)) = (packet /= Nothing)
        BY <3>1, Zenon
      <4>3. (packet' /= Nothing /\ (coder' = "counting" => again')) = (packet' /= Nothing)
        BY <2>0
      <4> QED BY <4>1, <4>2, <4>3, Zenon
    <3>2. CASE ~again
      <4>1. packet' = Nothing
        BY <1>4, <3>2, Zenon DEF Counted
      <4>2. ~(packet /= Nothing /\ (coder = "counting" => again))
        BY <2>0, <3>2, Zenon
      <4>3. ~(packet' /= Nothing /\ (coder' = "counting" => again'))
        BY <4>1, Zenon
      <4> QED BY <4>2, <4>3, Zenon DEF Token
    <3> QED BY <3>1, <3>2, Zenon
  <2> QED BY <1>0, <1>a, <1>b, <1>c, <2>0, <2>1, <2>2 DEF TokensInv
<1>5. CASE NoPicture
  <2>0. /\ coder = "decoding" /\ coder' \in {"trying", "idle"}
        /\ UNCHANGED <<routed, made, cached>>
    BY <1>5, Zenon DEF NoPicture
  <2>1. InCoder = 1 /\ InHand' = InHand
    BY <1>c, <2>0 DEF Token
  <2>2. CASE UNCHANGED inside
    BY <1>0, <1>a, <1>b, <1>c, <2>0, <2>1, <2>2 DEF TokensInv
  <2>3. CASE inside' = inside + 1 /\ packet' = Nothing
    <3>1. InCoder' = 0
      BY <2>3, Zenon DEF Token
    <3> QED BY <1>0, <1>a, <1>b, <1>c, <2>0, <2>1, <2>3, <3>1 DEF TokensInv
  <2> QED BY <1>5, <2>2, <2>3, Zenon DEF NoPicture
<1>6. CASE Reopen
  <2>0. /\ coder' = "idle" /\ cached' = Nothing /\ packet' = Nothing /\ inside' = 0
        /\ UNCHANGED <<routed, made>>
    BY <1>6 DEF Reopen, WaveInv
  <2>1. InHand' = 0 /\ InCoder' = 0
    BY <2>0, Zenon DEF Token
  <2> QED BY <1>0, <1>a, <1>b, <1>c, <2>0, <2>1 DEF TokensInv
<1>7. CASE Answered \/ GetStart \/ GetCopy \/ GetFails \/ GetCount \/ WaveStart \/ ClearImages
           \/ UNCHANGED imageVars
  <2>0. UNCHANGED <<routed, cached, packet, inside, made, coder, again>>
    BY <1>7, Zenon DEF Answered, GetStart, GetCopy, GetFails, GetCount, WaveStart, ClearImages,
                       imageVars, packetPart
  <2> QED BY <2>0, Zenon DEF TokensInv, Tokens, Token
<1>8. CASE DecodeStart \/ GiveUp \/ FlushStart \/ FlushEnd
  <2>0. /\ UNCHANGED <<routed, cached, packet, inside, made>>
        /\ coder \in {"idle", "trying"} /\ coder' \in {"idle", "trying", "decoding"}
        /\ coder' = "decoding" => packet /= Nothing
    BY <1>8, Zenon DEF DecodeStart, GiveUp, FlushStart, FlushEnd, packetPart, CanDecode
  <2>1. InCoder' = InCoder /\ InHand' = InHand
    BY <2>0 DEF Token
  <2> QED BY <1>0, <1>a, <1>b, <1>c, <2>0, <2>1 DEF TokensInv
<1> QED BY <1>1, <1>2, <1>3, <1>4, <1>5, <1>6, <1>7, <1>8, Zenon DEF ImageNext

LEMMA ImageNextInv == ImageInv /\ [ImageNext]_imageVars => ImageInv'
BY ImageTypeNext, WaveNext, PicturesNext, TokensNext, HandoverNext DEF ImageInv

THEOREM ImageInvariant == ImageSpec => []ImageInv
BY ImageInitInv, ImageNextInv, PTL DEF ImageSpec

\* The variables of a decoder have their types.
THEOREM ImageTypes == ImageSpec => []ImageTypeOK
<1>1. ImageInv => ImageTypeOK
  BY DEF ImageInv
<1> QED BY <1>1, ImageInvariant, PTL

-----------------------------------------------------------------------------
(* What follows from it.                                                   *)

LEMMA InvPicturesApart == ImageInv => PicturesApart
<1> SUFFICES ASSUME ImageInv PROVE PicturesApart
  OBVIOUS
<1>0. /\ MaxImages \in Nat \ {0} /\ made \in Nat
      /\ images \in [0..MaxImages - 1 -> Nat] /\ imageTake \in 0..MaxImages - 1
      /\ Holds(images, imageTake, imagePut, ImagesHeld, made, MaxImages)
  BY DEF ImageInv, PicturesInv, ImageTypeOK, ImageSlots
<1>1. ASSUME getter = "copying" PROVE images[imageTake] = made - ImagesHeld + 1
  BY <1>0, <1>1, ImagesHeldType, HoldsOldest DEF ImageInv
<1>2. \A k \in 0..ImagesHeld - 1 : imagePut /= Place(imageTake, k, MaxImages)
  BY <1>0, HoldsApart
<1> QED BY <1>1, <1>2 DEF PicturesApart

\* For any number of pictures the convert thread copies the oldest, and FFmpeg
\* writes over none.
THEOREM PicturesStayApart == ImageSpec => []PicturesApart
BY InvPicturesApart, ImageInvariant, PTL

\* For any number of packets none is overwritten between the two threads.
THEOREM PacketsAreKept == ImageSpec => HandoverKeepsPackets
<1>1. ASSUME ImageInv, [ImageNext]_imageVars, cached /= Nothing, cached' /= cached
      PROVE  cached' = Nothing \/ copyFailed
  <2>1. CASE Route
    BY <1>1, <2>1, Zenon DEF Route, ImageInv, HandoverInv
  <2>2. CASE ~Route
    BY <1>1, <2>2, Zenon
       DEF ImageNext, TakeRequest, Answered, DecodeStart, GiveUp, Picture, Counted, NoPicture,
           GetStart, GetCopy, GetFails, GetCount, WaveStart, FlushStart, FlushEnd, ClearImages,
           Reopen, imageVars, packetPart
  <2> QED BY <2>1, <2>2
<1> QED BY <1>1, ImageInvariant, PTL DEF ImageSpec, HandoverKeepsPackets

-----------------------------------------------------------------------------
(* The ring of pictures implements a channel.                              *)

LEMMA ImagesAreRun == ImageInv => imagesInside = Run(made, ImagesHeld)
<1> SUFFICES ASSUME ImageInv PROVE imagesInside = Run(made, ImagesHeld)
  OBVIOUS
<1>1. ImagesHeld \in Nat /\ made \in Nat
  BY ImagesHeldType DEF ImageInv, ImageTypeOK
<1>2. ASSUME NEW k \in 1..ImagesHeld
      PROVE  images[Place(imageTake, k - 1, MaxImages)] = made - ImagesHeld + k
  <2>1. k - 1 \in 0..ImagesHeld - 1
    BY <1>1
  <2>2. images[Place(imageTake, k - 1, MaxImages)] = made - ImagesHeld + 1 + (k - 1)
    BY <2>1 DEF ImageInv, PicturesInv, Holds
  <2> QED BY <1>1, <2>2
<1> QED BY <1>2 DEF imagesInside, Run

ImagesVars == <<imagesInside, got>>

LEMMA ImageInitRefines == ImageInit => ImageChannel!Init
<1> SUFFICES ASSUME ImageInit PROVE ImageChannel!Init
  OBVIOUS
<1>1. imagesInside = Run(made, ImagesHeld) /\ ImagesHeld = 0
  BY ImageInitInv, ImagesAreRun DEF ImageInit, ImagesHeld
<1> QED BY <1>1, RunNone DEF ImageInit, ImageChannel!Init

\* FFmpeg puts, the convert thread takes, a seek flushes; the rest stutters.
LEMMA ImageNextRefines ==
  ImageInv /\ ImageInv' /\ [ImageNext]_imageVars => [ImageChannel!Next]_ImagesVars
<1> SUFFICES ASSUME ImageInv, ImageInv', [ImageNext]_imageVars
             PROVE  ImageChannel!Next \/ UNCHANGED ImagesVars
  BY Zenon
<1>a. /\ ImagesHeld \in Nat /\ made \in Nat /\ ImagesHeld <= made
      /\ MaxImages \in Nat /\ MaxPackets \in Nat /\ imageCount \in Nat
      /\ coder = "decoding" => ImagesHeld + 1 < MaxImages
      /\ getter = "copying" => ImagesHeld > 0
  BY ImagesHeldType DEF ImageInv, ImageTypeOK, PicturesInv
<1>b. imagesInside = Run(made, ImagesHeld) /\ imagesInside' = Run(made', ImagesHeld')
  <2>1. (imagesInside = Run(made, ImagesHeld))'
    BY ImagesAreRun, PTL
  <2> QED BY <2>1, ImagesAreRun
<1>1. CASE ImagesHeld' = ImagesHeld /\ made' = made /\ got' = got
  BY <1>b, <1>1 DEF ImagesVars
<1>2. CASE Picture
  <2>1. ImagesHeld' = ImagesHeld + 1 /\ made' = made + 1 /\ ImagesHeld + 1 < MaxImages /\ got' = got
    BY <1>2, <1>a DEF Picture, ImagesHeld
  <2>2. imagesInside' = Append(imagesInside, made + 1) /\ Len(imagesInside) = ImagesHeld
    <3>1. /\ Run(made + 1, ImagesHeld + 1) = Append(Run(made, ImagesHeld), made + 1)
          /\ Len(Run(made, ImagesHeld)) = ImagesHeld
      BY <1>a, RunPut
    <3> QED BY <1>b, <2>1, <3>1, Zenon
  <2>3. made + 1 \in 1..MaxPackets
    <3>1. Token(packet /= Nothing /\ (coder = "counting" => again)) = 1
      BY <1>2 DEF Picture, ImageInv, TokensInv, Token
    <3>2. Token(cached /= Nothing) \in {0, 1}
      BY DEF Token
    <3>3. Tokens <= routed /\ routed <= MaxPackets /\ inside \in Nat /\ routed \in Nat
      BY DEF ImageInv, TokensInv, ImageTypeOK
    <3> QED BY <1>a, <3>1, <3>2, <3>3 DEF Tokens
  <2> QED BY <1>a, <2>1, <2>2, <2>3 DEF ImageChannel!Next, ImageChannel!Put
<1>3. CASE GetCopy
  <2>1. /\ ImagesHeld' = ImagesHeld - 1 /\ made' = made /\ ImagesHeld > 0
        /\ got' = images[imageTake]
    BY <1>3, <1>a DEF GetCopy, ImagesHeld
  <2>2. got' = made - ImagesHeld + 1
    BY <1>3, <2>1, InvPicturesApart DEF PicturesApart, GetCopy
  <2>3. /\ imagesInside /= <<>> /\ got' = Head(imagesInside)
        /\ imagesInside' = Tail(imagesInside)
    <3>1. ImagesHeld \in Nat \ {0} /\ imagesInside' = Run(made, ImagesHeld - 1)
      BY <1>a, <1>b, <2>1
    <3>2. /\ Run(made, ImagesHeld) /= <<>>
          /\ Head(Run(made, ImagesHeld)) = made - ImagesHeld + 1
          /\ Run(made, ImagesHeld - 1) = Tail(Run(made, ImagesHeld))
      BY <1>a, <3>1, RunTake
    <3> QED BY <1>b, <2>2, <3>1, <3>2, Zenon
  <2> QED BY <2>3 DEF ImageChannel!Next, ImageChannel!Take
<1>4. CASE ClearImages \/ Reopen
  <2>1. /\ coder' = "idle" /\ getter' = "idle" /\ made' = made /\ imageCount' = 0 /\ got' = got
    BY <1>4 DEF ClearImages, Reopen, EmptyImages, ImageInv, WaveInv
  <2>2. ImagesHeld' = 0
    BY <2>1 DEF ImagesHeld
  <2> QED BY <1>b, <2>1, <2>2, RunNone DEF ImageChannel!Next, ImageChannel!Flush
<1>5. CASE Route \/ TakeRequest \/ Answered \/ DecodeStart \/ GiveUp \/ WaveStart
           \/ FlushStart \/ FlushEnd
  <2>1. ImagesHeld' = ImagesHeld /\ made' = made /\ got' = got
    BY <1>5 DEF Route, TakeRequest, Answered, DecodeStart, GiveUp, WaveStart, FlushStart,
                FlushEnd, ringPart, ImagesHeld
  <2> QED BY <1>1, <2>1
<1>6. CASE Counted \/ NoPicture \/ GetStart \/ GetFails \/ GetCount \/ UNCHANGED imageVars
  <2>1. ImagesHeld' = ImagesHeld /\ made' = made /\ got' = got
    BY <1>6, <1>a DEF Counted, NoPicture, GetStart, GetFails, GetCount, imageVars, ringPart,
                      ImagesHeld
  <2> QED BY <1>1, <2>1
<1> QED BY <1>2, <1>3, <1>4, <1>5, <1>6, Zenon DEF ImageNext

\* For any number of pictures they come out in the order they were given, each
\* once, and a seek drops all or none.
THEOREM ImagesAreChannel == ImageSpec => ImagesInOrder
<1>1. ImageInit /\ [][ImageNext]_imageVars
        => ImageChannel!Init /\ [][ImageChannel!Next]_ImagesVars
  BY ImageInvariant, ImageInitRefines, ImageNextRefines, PTL DEF ImageSpec
<1> QED BY <1>1 DEF ImageSpec, ImagesInOrder, ImageChannel!Spec, ImagesVars
=============================================================================
