----------------------------- MODULE MCStorage -----------------------------
(* The allocators and the flush's sample on small instances.  They share   *)
(* no state, so a behaviour exercises one of them.                         *)
EXTENDS Arena, RepAllocator, RepSample

\* Keys of odd sizes between blocks of one and two lines of 4, and a block larger
\* than a chunk.
Requests == {KeyRequest(0), KeyRequest(3), <<4, 4>>, <<6, 4>>, <<5, 2>>, <<21, 4>>}

\* Lines of 8 under pointers of 2.
RawRequests == {<<8, 8>>, <<12, 8>>, <<5, 4>>, <<3, 1>>}

InitStorage == Init /\ RawInit /\ SampleInit

SampleIdle == table = <<>> /\ ~done

NextStorage ==
  \/ Next /\ raws = {} /\ SampleIdle /\ UNCHANGED <<rawVars, sampleVars>>
  \/ RawNext /\ blocks = {} /\ SampleIdle /\ UNCHANGED <<vars, sampleVars>>
  \/ SampleNext /\ blocks = {} /\ raws = {} /\ UNCHANGED <<vars, rawVars>>

SpecStorage == InitStorage /\ [][NextStorage]_<<vars, rawVars, sampleVars>>
=============================================================================
