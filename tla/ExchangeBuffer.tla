--------------------------- MODULE ExchangeBuffer ---------------------------
(* The exchange buffer of the MQTT client                                   *)
(* (M/mqtt/mqtt_exchange_buffer/mqtt_exchange_buffer.c, with M for          *)
(* src/mcc_generated_files): a ring of bytes, of which the one at           *)
(* currentLocation is the first.                                            *)
(*                                                                          *)
(* A buffer is a record, and a location the number of bytes from its start. *)
(* What the loops of the code do byte by byte is said at once.              *)
EXTENDS Integers, Sequences

Buffer(n, Byte) ==
    [start : [0 .. n - 1 -> Byte], bufferLength : {n},
     currentLocation : 0 .. n - 1, dataLength : 0 .. n]

Least(i, j) == IF i < j THEN i ELSE j

\* the location i bytes after the first byte, for i up to the buffer's length
Location(b, i) ==
    IF b.currentLocation + i >= b.bufferLength
    THEN b.currentLocation + i - b.bufferLength
    ELSE b.currentLocation + i

\* how far the location a is from the first byte
Distance(b, a) ==
    IF a >= b.currentLocation THEN a - b.currentLocation
    ELSE a - b.currentLocation + b.bufferLength

\* a buffer with other bytes, and other ones of them its content
Changed(b, start, current, length) ==
    [start |-> start, bufferLength |-> b.bufferLength,
     currentLocation |-> current, dataLength |-> length]

ExchangeBufferInit(b) == Changed(b, b.start, 0, 0)

\* what there is no room for is dropped; the caller is told that all was written
ExchangeBufferWrite(b, data) ==
    LET n == Least(Len(data), b.bufferLength - b.dataLength)
        written(a) == Distance(b, a) - b.dataLength + 1
        start == [a \in 0 .. b.bufferLength - 1 |->
                    IF written(a) \in 1 .. n THEN data[written(a)] ELSE b.start[a]]
    IN  Changed(b, start, b.currentLocation, b.dataLength + n)

\* what a read of length bytes returns, and leaves
ExchangeBufferData(b, length) ==
    [i \in 1 .. Least(length, b.dataLength) |-> b.start[Location(b, i - 1)]]

ExchangeBufferRead(b, length) ==
    LET n == Least(length, b.dataLength)
    IN  Changed(b, b.start, Location(b, n), b.dataLength - n)

\* the bytes in a buffer, in order
Content(b) == ExchangeBufferData(b, b.dataLength)

=============================================================================
