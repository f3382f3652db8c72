--------------------------- MODULE MCDetailPanel ----------------------------
(* Small instances of DetailPanel for TLC. *)
EXTENDS DetailPanel

CONSTANTS pngA, pngB, pngC

\* A cached node, given what its inputs link to, in front of a few loaders; the
\* VAE it also needs comes from a loader of something that is no media.
Node(inputs) ==
    [i \in DOMAIN inputs |-> Input(inputs[i][1], LinkTo(inputs[i][2]))]
        \o <<Input(<<"vae", 0>>, LinkTo("vae"))>>
Load(file) == <<Input("file", Literal(file))>>
Op(id1, id2) == <<Input("in1", LinkTo(id1)), Input("file", Literal(pngC)), Input("in2", LinkTo(id2))>>

Graph(inputs) ==
    Me :> Node(inputs) @@ "vae" :> Load("vae.safetensors") @@ "decode" :> Load("steps")
        @@ "la" :> Load(pngA) @@ "lb" :> Load(pngB)
        @@ "both" :> Load(pngB) \o Load(pngA)
        @@ "batch" :> Op("crop", "lb") @@ "crop" :> Op("la", "nowhere")
        @@ "loop" :> Op("loop", "batch")

\* Someone has loaded a file that "decode" had put out.
Pictures == [id \in {"la", "lb", "both", "batch", "crop", "loop", "decode", "vae"} |->
                IF id = "decode" THEN "la" ELSE id]

Img(i) == <<"ref_image", i>>

\* The same two references in other slots, one of them without a file; fan-in, a
\* loop, a video with and without soundtrack, a soundtrack alone; one keyframe, in
\* either place, without a file, and both.
Prompts ==
    [first |-> Graph(<<<<Img(0), "la">>, <<Img(1), "lb">>>>),
     moved |-> Graph(<<<<Img(1), "la">>, <<Img(2), "lb">>>>),
     decoded |-> Graph(<<<<Img(1), "lb">>, <<Img(0), "decode">>>>),
     untraced |-> Graph(<<<<Img(0), "la">>, <<Img(1), "lb">>>>),
     media |-> Graph(<<<<Img(2), "loop">>, <<<<"ref_video", 0>>, "both">>,
                       <<<<"ref_video_audio", 0>>, "la">>, <<<<"ref_audio", 0>>, "lb">>>>),
     silent |-> Graph(<<<<<<"ref_video_audio", 0>>, "la">>, <<Img(0), "batch">>>>),
     start |-> Graph(<<<<<<"first_frame", 0>>, "la">>>>),
     black |-> Graph(<<<<<<"first_frame", 0>>, "decode">>>>),
     end |-> Graph(<<<<<<"last_frame", 0>>, "la">>>>),
     ends |-> Graph(<<<<<<"first_frame", 0>>, "la">>, <<<<"last_frame", 0>>, "crop">>>>)]

Variant == [w \in DOMAIN Prompts |->
               IF w \in {"start", "black", "end", "ends"} THEN "fl2va" ELSE "ref2va"]

Given == DOMAIN Prompts \ {"untraced"}
Moving == {"first", "moved"}
MovingFamily == {Moving}
SmallFamilies == {{"first", "moved", "decoded", "untraced"}, {"media", "silent"},
                  {"start", "end"}, {"start", "black"}, {"start", "ends"},
                  {"first", "start"}}

\* What the theorem about the join assumes of the walk.
ASSUME WalkAssumption == WalksAreRight
=============================================================================
