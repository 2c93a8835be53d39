SPECIFICATION FairSpec
CONSTANTS
    NUM_IF_RX65N_RXBUF = 2
    NUM_IF_RX65N_TXBUF = 2
    FIFO_FRAMES = 1
    RX = TRUE
    Empty = {3}
    MaxFrames = 3
    MaxOut = 3
    MaxFlaps = 1
INVARIANTS NoForgottenFrame StopsOnlyFull NegotiationGoesOn 
PROPERTIES ImplementsQueue  FrameRead
CHECK_DEADLOCK FALSE
