CONSTANTS
    Char = {x, y}
    CR = CR
    LF = LF
    Nul = Nul
    NoByte = NoByte
    USART_REC_LEN = 4
    CommandSize = 3
SPECIFICATION Spec
INVARIANTS
    SemaphoreMeansLine
