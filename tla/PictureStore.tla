----------------------------- MODULE PictureStore -----------------------------
(* What image/mpp/README.md ("Ownership and cache") promises the users of the *)
(* MPP decoder: a reader gets the picture its source has when it is opened,   *)
(* fit for the arguments it passed, and keeps exactly that until it closes,   *)
(* however entries are shared, evicted and invalidated below.  DecoderCache   *)
(* implements it.                                                             *)
EXTENDS Naturals

CONSTANTS
  Source,   \* images: paths or descriptors
  Reader,   \* image descriptors that may be open at a time
  Nothing   \* no picture

VARIABLES
  version,  \* what each source holds now
  shown     \* the picture each reader has, or Nothing

storeVars == <<version, shown>>

\* lv_image_decoder_args_t: premultiply and use_indexed act alike (pre); no_cache
\* is no part of what is asked for.
Args == [pre : BOOLEAN, align : BOOLEAN]

\* A picture serves a request: as premultiplied as asked for, with aligned rows
\* if asked for, and where the GE2D engine reaches it if it is asked for as it is.
Serves(p, args) ==
  /\ p.pre = args.pre
  /\ args.align => p.align
  /\ ~args.align /\ ~args.pre => p.dma

StoreInit == version = [src \in Source |-> 0] /\ shown = [r \in Reader |-> Nothing]

OpenPicture(r, src, args) ==
  /\ shown[r] = Nothing
  /\ \E p \in [src : {src}, ver : {version[src]}, pre : BOOLEAN, align : BOOLEAN, dma : BOOLEAN] :
       Serves(p, args) /\ shown' = [shown EXCEPT ![r] = p]
  /\ UNCHANGED version

ClosePicture(r) ==
  /\ shown[r] # Nothing /\ shown' = [shown EXCEPT ![r] = Nothing]
  /\ UNCHANGED version

ChangeSource(src) ==
  /\ version' = [version EXCEPT ![src] = @ + 1] /\ UNCHANGED shown

StoreNext ==
  \/ \E r \in Reader, src \in Source, args \in Args : OpenPicture(r, src, args)
  \/ \E r \in Reader : ClosePicture(r)
  \/ \E src \in Source : ChangeSource(src)

StoreSpec == StoreInit /\ [][StoreNext]_storeVars
=============================================================================
