\* A Compact5 telegram with a short payload.
CONSTANTS
    Vals <- MC_Vals
    Telegrams603 <- MC_Telegrams603
    Telegrams302 <- MC_Telegrams302
    Telegrams5 <- MC_Telegrams5
    TelegramsPU <- MC_TelegramsPU
    Bytes <- MC_Bytes
    MaxTelegrams <- MC_MaxTelegrams
SPECIFICATION Spec
INVARIANT ExplanationsInFrame
