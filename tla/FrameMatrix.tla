----------------------------- MODULE FrameMatrix -----------------------------
(***************************************************************************)
(* The matrix a client gets with the last flushed frame.  The queue keeps   *)
(* the transform each frame was flushed under; SurfaceUtils turns it, and a *)
(* crop, into a 4 x 4 matrix in one of two conventions: "old"               *)
(* (ComputeTransformMatrix) or "new" (ComputeTransformMatrixV2).            *)
(*                                                                         *)
(* Matrices are sequences of 16 entries, column by column as in the code.   *)
(* The entries, floats in the code, are integers in units of 1/Unit; every  *)
(* width and height divides Unit, so that no product below is rounded.      *)
(***************************************************************************)
EXTENDS Integers, Sequences, FiniteSets

CONSTANTS
    FrameWidth, FrameHeight,  \* the frame's size
    Unit

ASSUME UnitAssumption == /\ {FrameWidth, FrameHeight, Unit} \subseteq Nat \ {0}
                         /\ Unit % FrameWidth = 0 /\ Unit % FrameHeight = 0

VARIABLES
    queueTransform, \* transform_ of the queue
    frameTransform, \* lastFlushedTransform_, "NOFRAME" before the first flush
    reading,        \* the matrix just computed, and from what
    frameMatrices   \* history: the matrices read with this frame, by convention

matrixVars == <<queueTransform, frameTransform, reading, frameMatrices>>

GraphicTransforms == {"ROTATE_NONE", "ROTATE_90", "ROTATE_180", "ROTATE_270", "FLIP_H", "FLIP_V",
               "FLIP_H_ROT90", "FLIP_V_ROT90", "FLIP_H_ROT180", "FLIP_V_ROT180",
               "FLIP_H_ROT270", "FLIP_V_ROT270"}

(* The matrix that sends (x, y) to (a x + c y + e, b x + d y + f).          *)
Plane(a, b, c, d, e, f) == <<a, b, 0, 0,  c, d, 0, 0,  0, 0, Unit, 0,  e, f, 0, Unit>>
One == Unit

MatrixProduct(l, r) ==
    [i \in 1..16 |->
        LET row == (i - 1) % 4
            col == (i - 1) \div 4
        IN  (l[row + 1] * r[4 * col + 1] + l[row + 5] * r[4 * col + 2]
              + l[row + 9] * r[4 * col + 3] + l[row + 13] * r[4 * col + 4]) \div Unit]

Identity == Plane(One, 0, 0, One, 0, 0)

-----------------------------------------------------------------------------
(* The transform alone: about the origin in the old convention, about the   *)
(* centre of the unit square in the new one.                                *)
ComputeTransformByMatrix(t) ==
    LET rotate90  == Plane(0, -One, One, 0, 0, 0)
        rotate180 == Plane(-One, 0, 0, -One, 0, 0)
        rotate270 == Plane(0, One, -One, 0, 0, 0)
        flipH     == Plane(-One, 0, 0, One, 0, 0)
        flipV     == Plane(One, 0, 0, -One, 0, 0)
    IN  CASE t = "ROTATE_NONE"   -> Identity
          [] t = "ROTATE_90"     -> MatrixProduct(Identity, rotate90)
          [] t = "ROTATE_180"    -> MatrixProduct(Identity, rotate180)
          [] t = "ROTATE_270"    -> MatrixProduct(Identity, rotate270)
          [] t = "FLIP_H"        -> MatrixProduct(Identity, flipH)
          [] t = "FLIP_V"        -> MatrixProduct(Identity, flipV)
          [] t = "FLIP_H_ROT90"  -> MatrixProduct(flipH, rotate90)
          [] t = "FLIP_V_ROT90"  -> MatrixProduct(flipV, rotate90)
          [] t = "FLIP_H_ROT180" -> MatrixProduct(flipH, rotate180)
          [] t = "FLIP_V_ROT180" -> MatrixProduct(flipV, rotate180)
          [] t = "FLIP_H_ROT270" -> MatrixProduct(flipH, rotate270)
          [] t = "FLIP_V_ROT270" -> MatrixProduct(flipV, rotate270)

NewRotate90  == Plane(0, One, -One, 0, One, 0)
NewRotate180 == Plane(-One, 0, 0, -One, One, One)
NewRotate270 == Plane(0, -One, One, 0, 0, One)
NewFlipH     == Plane(-One, 0, 0, One, One, 0)
NewFlipV     == Plane(One, 0, 0, -One, 0, One)

NewCombined_AsBefore(t) ==      \* the flips combined as in the old convention
    CASE t \in {"FLIP_H_ROT90", "FLIP_V_ROT270"} -> MatrixProduct(NewFlipH, NewRotate90)
      [] t \in {"FLIP_V_ROT90", "FLIP_H_ROT270"} -> MatrixProduct(NewFlipV, NewRotate90)
NewCombined(t) ==
    CASE t \in {"FLIP_H_ROT90", "FLIP_V_ROT270"} -> MatrixProduct(NewFlipV, NewRotate90)
      [] t \in {"FLIP_V_ROT90", "FLIP_H_ROT270"} -> MatrixProduct(NewFlipH, NewRotate90)

ComputeTransformByMatrixV2(t) ==
    CASE t = "ROTATE_NONE" -> Identity
      [] t = "ROTATE_90"   -> NewRotate90
      [] t = "ROTATE_180"  -> NewRotate180
      [] t = "ROTATE_270"  -> NewRotate270
      [] t \in {"FLIP_H", "FLIP_V_ROT180"} -> NewFlipH
      [] t \in {"FLIP_V", "FLIP_H_ROT180"} -> NewFlipV
      [] OTHER -> NewCombined(t)

-----------------------------------------------------------------------------
Whole == [x |-> 0, y |-> 0, w |-> FrameWidth, h |-> FrameHeight]

(* The crop is applied only along a side it shortens.                       *)
CropMatrix(crop, ty) ==
    LET sx == IF crop.w < FrameWidth  THEN crop.w * (Unit \div FrameWidth)  ELSE One
        tx == IF crop.w < FrameWidth  THEN crop.x * (Unit \div FrameWidth)  ELSE 0
        sy == IF crop.h < FrameHeight THEN crop.h * (Unit \div FrameHeight) ELSE One
    IN  Plane(sx, 0, 0, sy, tx, IF crop.h < FrameHeight THEN ty * (Unit \div FrameHeight) ELSE 0)

Cropped(m, crop, ty) ==
    IF crop.w < FrameWidth \/ crop.h < FrameHeight THEN MatrixProduct(CropMatrix(crop, ty), m) ELSE m

ComputeTransformMatrix(t, crop) ==
    Cropped(ComputeTransformByMatrix(t), crop, FrameHeight - crop.y)

(* The transform is a reference: the quarter turns are exchanged in the     *)
(* caller's variable, and stay exchanged.                                   *)
Exchanged(t) == CASE t = "ROTATE_90"  -> "ROTATE_270"
                  [] t = "ROTATE_270" -> "ROTATE_90"
                  [] OTHER            -> t

ComputeTransformMatrixV2(t, crop) ==
    MatrixProduct(NewFlipV, Cropped(ComputeTransformByMatrixV2(Exchanged(t)), crop,
                                    FrameHeight - crop.y - crop.h))

MatrixFor(convention, t, crop) ==
    IF convention = "new" THEN ComputeTransformMatrixV2(t, crop) ELSE ComputeTransformMatrix(t, crop)

Left(convention, t) == IF convention = "new" THEN Exchanged(t) ELSE t

-----------------------------------------------------------------------------
NoReading == [convention |-> "none", t |-> "ROTATE_NONE", crop |-> Whole, matrix |-> Identity]

MatrixInit ==
    /\ queueTransform = "ROTATE_NONE"
    /\ frameTransform = "NOFRAME"
    /\ reading = NoReading
    /\ frameMatrices = {}

QueueSetsTransform(t) ==
    /\ queueTransform' = t
    /\ reading' = NoReading
    /\ UNCHANGED <<frameTransform, frameMatrices>>

(* DoFlushBufferLocked, of which only the transform matters here.           *)
FlushFrame ==
    /\ frameTransform' = queueTransform
    /\ frameMatrices' = {}
    /\ reading' = NoReading
    /\ UNCHANGED queueTransform

(* GetLastFlushedBuffer passes lastFlushedTransform_ itself, and no crop.   *)
GetLastFlushedBuffer(convention) ==
    /\ frameTransform # "NOFRAME"
    /\ LET m == MatrixFor(convention, frameTransform, Whole) IN
       /\ reading' = [convention |-> convention, t |-> frameTransform, crop |-> Whole, matrix |-> m]
       /\ frameMatrices' = frameMatrices \union {<<convention, m>>}
    /\ frameTransform' = Left(convention, frameTransform)
    /\ UNCHANGED queueTransform

(* A client of SurfaceUtils with a transform and a crop of its own; what    *)
(* the queue does meanwhile is no matter, so it is a new queue.             *)
ComputesMatrix(convention, t, crop) ==
    /\ frameTransform = "NOFRAME" /\ queueTransform = "ROTATE_NONE" /\ reading = NoReading
    /\ reading' = [convention |-> convention, t |-> t, crop |-> crop,
                   matrix |-> MatrixFor(convention, t, crop)]
    /\ UNCHANGED <<queueTransform, frameTransform, frameMatrices>>

Crops == {c \in [x : 0..FrameWidth - 1, y : 0..FrameHeight - 1, w : 1..FrameWidth, h : 1..FrameHeight] :
            c.x + c.w <= FrameWidth /\ c.y + c.h <= FrameHeight}

MatrixNext ==
    \/ \E t \in GraphicTransforms : QueueSetsTransform(t)
    \/ FlushFrame
    \/ \E convention \in {"old", "new"} :
          \/ GetLastFlushedBuffer(convention)
          \/ \E t \in GraphicTransforms, crop \in Crops : ComputesMatrix(convention, t, crop)

MatrixSpec == MatrixInit /\ [][MatrixNext]_matrixVars

-----------------------------------------------------------------------------
(* The reference: what a transform does to a point of the unit square, y    *)
(* upwards, as a number of quarter turns followed by a flip.                *)
Turns(t) == CASE t \in {"ROTATE_90", "FLIP_H_ROT90", "FLIP_V_ROT90"} -> 1
              [] t \in {"ROTATE_180", "FLIP_H_ROT180", "FLIP_V_ROT180"} -> 2
              [] t \in {"ROTATE_270", "FLIP_H_ROT270", "FLIP_V_ROT270"} -> 3
              [] OTHER -> 0

Flip(t, p) == CASE t \in {"FLIP_H", "FLIP_H_ROT90", "FLIP_H_ROT180", "FLIP_H_ROT270"} -> <<1 - p[1], p[2]>>
                [] t \in {"FLIP_V", "FLIP_V_ROT90", "FLIP_V_ROT180", "FLIP_V_ROT270"} -> <<p[1], 1 - p[2]>>
                [] OTHER -> p

Quarter(p) == <<p[2], 1 - p[1]>>

Turned(n, p) == CASE n = 0 -> p
                  [] n = 1 -> Quarter(p)
                  [] n = 2 -> Quarter(Quarter(p))
                  [] n = 3 -> Quarter(Quarter(Quarter(p)))

Moves(t, p) == Flip(t, Turned(Turns(t), p))

At(m, p) == <<m[1] * p[1] + m[5] * p[2] + m[13], m[2] * p[1] + m[6] * p[2] + m[14]>>

Corners == {0, 1} \X {0, 1}

(* In the new convention the matrix sends each corner of the unit square to *)
(* the corner of the cropped frame, y downwards, that the transform names;  *)
(* in the old one it turns and scales the square's sides as the transform   *)
(* and the crop say.  Both for every transform and every crop, as           *)
(* ComputeTransformMatrix and ComputeTransformMatrixV2 promise.             *)
MatrixIsGeometric ==
    \A p \in Corners :
        LET c == reading.crop
            q == Moves(reading.t, p)
            o == Moves(reading.t, <<0, 0>>)
            x(u) == (Unit \div FrameWidth) * u
            y(u) == (Unit \div FrameHeight) * u
            m == reading.matrix
        IN  /\ reading.convention = "new" =>
                   At(m, p) = <<x(c.x + c.w * q[1]), y(c.y + c.h * (1 - q[2]))>>
            /\ reading.convention = "old" =>
                   <<At(m, p)[1] - At(m, <<0, 0>>)[1], At(m, p)[2] - At(m, <<0, 0>>)[2]>>
                     = <<x(c.w * (q[1] - o[1])), y(c.h * (q[2] - o[2]))>>

(* A frame has one matrix: who reads the last flushed buffer again, before  *)
(* another frame is flushed, gets the matrix that was read before.          *)
SameFrameSameMatrix ==
    \A r, s \in frameMatrices : r[1] = s[1] => r[2] = s[2]
=============================================================================
