----------------------------- MODULE MCRovMixer -----------------------------
\* RovMixer with the masks of free mode and of one held axis.
EXTENDS RovMixer

Masks == {{}, {1}}
=============================================================================
