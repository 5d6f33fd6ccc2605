--------------------------- MODULE PageRendering ---------------------------
(***************************************************************************)
(* render_page() of src/src/scanner_core.cpp: what an export makes of a    *)
(* page's master: crop, then rotation, then tone. An image is a record     *)
(* [width, height, pixels], its pixels in rows from the top, as in the     *)
(* code; here they are numbered from one.                                  *)
(***************************************************************************)
EXTENDS Integers, Sequences

CONSTANTS
  Masters,    \* the decoded images of pages
  Tones,      \* the [brightness, contrast] of pages, each in -100 .. 100
  MaxSample   \* 255

\* What decode_pgm() returns.
IsImage(image) ==
  /\ image = [width |-> image.width, height |-> image.height, pixels |-> image.pixels]
  /\ {image.width, image.height} \subseteq Nat \ {0}
  /\ image.pixels \in [1 .. image.width * image.height -> 0 .. MaxSample]

ASSUME RenderingAssumption ==
  /\ \A image \in Masters : IsImage(image)
  /\ Tones \subseteq [brightness : -100 .. 100, contrast : -100 .. 100]
  /\ MaxSample \in Nat

VARIABLES
  master,     \* the decoded master: [width, height, pixels]
  edits,      \* the page's crop, rotation and tone
  rendered    \* what render_page() returns

renderVars == <<master, edits, rendered>>

WholePage == [x |-> 0, y |-> 0, width |-> 0, height |-> 0]

\* The crops that set_crop() accepts for an image of this size, and none.
CropsOf(size) ==
  {WholePage} \cup
  {c \in [x : 0 .. size.width - 1, y : 0 .. size.height - 1,
          width : 1 .. size.width, height : 1 .. size.height] :
     c.x + c.width <= size.width /\ c.y + c.height <= size.height}

\* The index of the pixel in column x and row y, both from zero.
At(width, x, y) == y * width + x + 1

Pixel(image, x, y) == image.pixels[At(image.width, x, y)]

\* The image of this size that has in column x and row y what pixel(x, y) gives.
Image(width, height, pixel(_, _)) ==
  [width |-> width, height |-> height,
   pixels |-> [i \in 1 .. width * height |-> pixel((i - 1) % width, (i - 1) \div width)]]

\* The first loop of render_page().
Cropped(image, crop) ==
  IF crop = WholePage
  THEN image
  ELSE Image(crop.width, crop.height, LAMBDA x, y : Pixel(image, crop.x + x, crop.y + y))

\* Where the rotation loop puts the pixel in column x and row y.
Target(image, rotation, x, y) ==
  CASE rotation = 90 -> <<image.height - 1 - y, x>>
    [] rotation = 180 -> <<image.width - 1 - x, image.height - 1 - y>>
    [] rotation = 270 -> <<y, image.width - 1 - x>>

\* The rotation loop.
Rotated(image, rotation) ==
  IF rotation = 0
  THEN image
  ELSE LET swaps == rotation \in {90, 270}
           width == IF swaps THEN image.height ELSE image.width
           height == IF swaps THEN image.width ELSE image.height
           source(x, y) ==
             CHOOSE i \in DOMAIN image.pixels :
               Target(image, rotation, (i - 1) % image.width, (i - 1) \div image.width) = <<x, y>>
       IN Image(width, height, LAMBDA x, y : image.pixels[source(x, y)])

\* std::clamp.
Clamp(sample) == IF sample < 0 THEN 0 ELSE IF sample > MaxSample THEN MaxSample ELSE sample

\* std::lround(numerator / denominator), which rounds halves away from zero.
Lround(numerator, denominator) ==
  IF numerator < 0
  THEN -((-2 * numerator + denominator) \div (2 * denominator))
  ELSE (2 * numerator + denominator) \div (2 * denominator)

\* The tone of one pixel, (sample - 127.5) * (100 + contrast) / 100 + 127.5 +
\* brightness * 2.55, over the common denominator 200.
Toned(sample, tone) ==
  Clamp(Lround((2 * sample - 255) * (100 + tone.contrast) + 25500 + 510 * tone.brightness, 200))

NoTone == [brightness |-> 0, contrast |-> 0]

\* The loop over the pixels.
TonedImage(image, tone) ==
  IF tone = NoTone
  THEN image
  ELSE [image EXCEPT !.pixels = [i \in DOMAIN @ |-> Toned(@[i], tone)]]

\* A mutant: the rotation comes before the crop.
RenderRotatedFirst(image, of) ==
  LET shown == Rotated(image, of.rotation)
  IN TonedImage(IF of.crop \in CropsOf(shown) THEN Cropped(shown, of.crop) ELSE shown, of.tone)

\* render_page().
Render(image, of) == TonedImage(Rotated(Cropped(image, of.crop), of.rotation), of.tone)

-----------------------------------------------------------------------------
Nothing == [width |-> 0, height |-> 0, pixels |-> <<>>]

RenderInit ==
  \E image \in Masters, rotation \in {0, 90, 180, 270}, tone \in Tones :
    \E crop \in CropsOf(image) :
      /\ master = image
      /\ edits = [crop |-> crop, rotation |-> rotation, tone |-> tone]
      /\ rendered = Nothing

\* No page is asked for.
RenderIdle == master = Nothing /\ edits = Nothing /\ rendered = Nothing

RenderPage ==
  /\ rendered' = Render(master, edits)
  /\ UNCHANGED <<master, edits>>

RenderSpec == RenderInit /\ [][RenderPage]_renderVars

-----------------------------------------------------------------------------
\* A quarter turn to the right: the columns become the rows, read upwards.
Quarter(image) ==
  Image(image.height, image.width, LAMBDA x, y : Pixel(image, y, image.height - 1 - x))

\* Turning an image so many times.
TurnedBy(image) ==
  [times \in 0 .. 3 |->
     CASE times = 0 -> image
       [] times = 1 -> Quarter(image)
       [] times = 2 -> Quarter(Quarter(image))
       [] times = 3 -> Quarter(Quarter(Quarter(image)))]

\* An export shows the selected part of the page, turned to the right by quarter
\* turns, every pixel of that part once and none of another; crop and rotation are
\* applied first, and the tone then keeps the order of the samples, and keeps them
\* as they are if neither brightness nor contrast is changed.
RenderIsExact ==
  rendered # Nothing =>
    LET crop == IF edits.crop = WholePage
                THEN [x |-> 0, y |-> 0, width |-> master.width, height |-> master.height]
                ELSE edits.crop
        part == Image(crop.width, crop.height, LAMBDA x, y : Pixel(master, crop.x + x, crop.y + y))
        exact == TurnedBy(part)[edits.rotation \div 90]
    IN /\ rendered.width = exact.width /\ rendered.height = exact.height
       /\ \A i, j \in DOMAIN exact.pixels :
            exact.pixels[i] <= exact.pixels[j] => rendered.pixels[i] <= rendered.pixels[j]
       /\ edits.tone = NoTone => rendered = exact
=============================================================================
