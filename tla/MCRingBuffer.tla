---------------------------- MODULE MCRingBuffer ----------------------------
\* The ring buffer with a few cells: frames of several sizes, smaller and
\* larger than the buffer, are pushed and popped.
EXTENDS RingBuffer
=============================================================================
